---------------------------- MODULE Spec2Model ----------------------------
(***************************************************************************)
(* The request-security pipeline of my-app: signed bearer tokens           *)
(* (src/lib/crypto.ts), the CSRF double-submit store                       *)
(* (server/middleware/csrf.ts), CORS and security headers, the fixed       *)
(* window rate limiter (server/middleware/rate-limit.ts), the auth guards  *)
(* and the Bun.serve fetch handler that composes them.                     *)
(*                                                                         *)
(* Three specifications share the definitions below:                       *)
(*   Spec         the fetch handler serving one request after another      *)
(*   SpecLimiter  concurrent login attempts going through authRateLimiter  *)
(*   SpecToken    generateToken / verifyToken applied to bounded inputs    *)
(*                                                                         *)
(* Time is Date.now() in milliseconds counted from process start; the      *)
(* clock only visits the instants at which some comparison of the code     *)
(* changes its outcome.                                                    *)
(***************************************************************************)
EXTENDS Integers, Sequences, FiniteSets, TLC

VARIABLES
    env,             \* process.env.NODE_ENV, read at start
    now,             \* Date.now()
    csrfTokenStore,  \* csrf.ts: Map cookie -> {token, expires}
    nextCsrf,        \* number of randomBytes pairs drawn so far
    userTable,       \* the users table behind userRepository
    nextUserId,      \* number of ids generated so far
    rateLimitStore,  \* rate-limit.ts: Map ip -> {count, resetTime}
    exchange,        \* the request being answered and its response
    issued,          \* what successful logins / registrations returned
    revoked,         \* cookies carried by a logout that returned 200
    inflight,        \* SpecLimiter: login requests past their first await
    window,          \* SpecLimiter: per ip, the requests of the open window
    lastCheck,       \* SpecLimiter: the latest limiter call and its outcome
    tkClaims,        \* SpecToken: the claims handed to generateToken
    tkToken,         \* SpecToken: the token string, split at "."
    tkResult,        \* SpecToken: what verifyToken returned
    tkAt,            \* SpecToken: Date.now() when the token was generated
    tkPc             \* SpecToken: position of the token exercise

vars == <<env, now, csrfTokenStore, nextCsrf, userTable, nextUserId,
          rateLimitStore, exchange, issued, revoked, inflight, window,
          lastCheck, tkClaims, tkToken, tkResult, tkAt, tkPc>>

pipelineVars == <<csrfTokenStore, nextCsrf, userTable, nextUserId, exchange,
                  issued, revoked>>
limiterVars == <<rateLimitStore, inflight, window, lastCheck>>
tokenVars == <<tkClaims, tkToken, tkResult, tkAt, tkPc>>

-----------------------------------------------------------------------------
(* Bounds of the model *)

MaxIssue == 2      \* CSRF pairs (successful logins + registrations) issued
MaxUserId == 2     \* ids the repository hands out
MaxCount == 7      \* highest count a rate-limit entry is driven to
MaxInflight == 2   \* login requests suspended at an await at the same time

-----------------------------------------------------------------------------
(* Program constants *)

JWT_EXPIRY == 86400          \* 60 * 60 * 24 seconds
CSRF_TTL_MS == 86400000      \* 24 * 60 * 60 * 1000
MS_PER_SEC == 1000           \* Date.now() / 1000
AUTH_WINDOW_MS == 900000     \* 15 * 60 * 1000
AUTH_MAX == 5
STRICT_WINDOW_MS == 3600000  \* 60 * 60 * 1000
STRICT_MAX == 3

JWT_SECRET == "server-secret"

\* null / undefined / a header or cookie that is absent
NoValue == "<none>"

\* Math.ceil(a / b) for b > 0
CeilDiv(a, b) == -((-a) \div b)

-----------------------------------------------------------------------------
(* JSON and base64url, as far as the token code uses them.                 *)
(* A JS value is a tagged record; an object is a function from keys to     *)
(* values.                                                                 *)

JsString(s) == [t |-> "string", v |-> s]
JsNumber(n) == [t |-> "number", v |-> n]
JsNull == [t |-> "null"]
JsNaN == [t |-> "NaN"]
JsUndefined == [t |-> "undefined"]

\* JSON.stringify of an object: a member whose value is undefined is left
\* out, NaN is written as null.
JSONstringify(obj) ==
    LET kept == {k \in DOMAIN obj : obj[k] # JsUndefined}
    IN  [json |-> [k \in kept |-> IF obj[k] = JsNaN THEN JsNull ELSE obj[k]]]

\* Buffer.from(text).toString("base64url"): one dot-free segment
base64url(text) == [kind |-> "b64", text |-> text]

\* A segment that is no base64url of JSON text, and the empty segment
JunkSegment == [kind |-> "junk"]
EmptySegment == [kind |-> "empty"]

\* JSON.parse(Buffer.from(segment, "base64url").toString()) throws on
\* anything that is not JSON text
ParseThrows(segment) == segment.kind # "b64"
JSONparse(segment) == segment.text.json

\* createHash("sha256").update(`${h}.${p}${secret}`).digest("base64url"),
\* taken to be collision free
sha256(h, p, secret) == [kind |-> "sig", h |-> h, p |-> p, secret |-> secret]

\* token.split(".")[i] for i beyond the split: undefined
NoSegment == [kind |-> "undefined"]

\* JS truthiness of a split segment: undefined and "" are falsy
Truthy(segment) == segment # NoSegment /\ segment # EmptySegment

-----------------------------------------------------------------------------
(* src/lib/crypto.ts *)

\* TokenBody without the spread of the payload
TokenBody_WithoutPayload(payload, t) ==
    [k \in {"iat", "exp"} |->
        IF k = "iat" THEN JsNumber(t \div MS_PER_SEC)
        ELSE JsNumber(t \div MS_PER_SEC + JWT_EXPIRY)]

\* { ...payload, iat, exp }
TokenBody(payload, t) ==
    [k \in DOMAIN payload \cup {"iat", "exp"} |->
        IF k = "iat" THEN JsNumber(t \div MS_PER_SEC)
        ELSE IF k = "exp" THEN JsNumber(t \div MS_PER_SEC + JWT_EXPIRY)
        ELSE payload[k]]

JwtHeader == [alg |-> JsString("HS256"), typ |-> JsString("JWT")]

\* generateToken(payload) at Date.now() = t; the string is kept as the
\* sequence of its dot-separated segments
generateToken(payload, t) ==
    LET encodedHeader == base64url(JSONstringify(JwtHeader))
        encodedPayload == base64url(JSONstringify(TokenBody(payload, t)))
        signature == sha256(encodedHeader, encodedPayload, JWT_SECRET)
    IN  <<encodedHeader, encodedPayload, signature>>

\* const [a, b, c] = token.split("."): the first three segments, undefined
\* where the split is shorter; further segments are dropped
Destructure3(token) ==
    [i \in 1..3 |-> IF i <= Len(token) THEN token[i] ELSE NoSegment]

\* Expired that already rejects in the second that equals exp
Expired_AtExp(payload, t) ==
    /\ "exp" \in DOMAIN payload
    /\ payload["exp"].t = "number"
    /\ payload["exp"].v # 0
    /\ payload["exp"].v <= t \div MS_PER_SEC

\* payload.exp && payload.exp < Math.floor(Date.now() / 1000)
Expired(payload, t) ==
    /\ "exp" \in DOMAIN payload
    /\ payload["exp"].t = "number"
    /\ payload["exp"].v # 0
    /\ payload["exp"].v < t \div MS_PER_SEC

\* verifyToken(token) at Date.now() = t: the payload, or JsNull for null
verifyToken(token, t) ==
    LET seg == Destructure3(token)
        encodedHeader == seg[1]
        encodedPayload == seg[2]
        signature == seg[3]
    IN  IF ~Truthy(encodedHeader) \/ ~Truthy(encodedPayload) \/ ~Truthy(signature)
        THEN JsNull
        ELSE IF signature # sha256(encodedHeader, encodedPayload, JWT_SECRET)
        THEN JsNull
        ELSE IF ParseThrows(encodedPayload)
        THEN JsNull
        ELSE IF Expired(JSONparse(encodedPayload), t)
        THEN JsNull
        ELSE JSONparse(encodedPayload)

-----------------------------------------------------------------------------
(* Responses and their headers.  A Headers object is a function from the   *)
(* header names set so far to their values.                                *)

EmptyHeaders == [n \in {} |-> ""]
HSet(h, n, v) == [k \in DOMAIN h \cup {n} |-> IF k = n THEN v ELSE h[k]]
HDelete(h, n) == [k \in DOMAIN h \ {n} |-> h[k]]
HGet(h, n) == IF n \in DOMAIN h THEN h[n] ELSE NoValue

\* A response: csrfCookie is the value inside a csrf-token Set-Cookie
\* header, 0 when none is set or it is set empty; numHeaders holds the
\* headers whose value is String(number)
Response(status, headers, body) ==
    [status |-> status, headers |-> headers, body |-> body, csrfCookie |-> 0,
     numHeaders |-> [n \in {} |-> 0]]

\* Response.json(data, {status})
ResponseJson(status, body) ==
    Response(status, HSet(EmptyHeaders, "Content-Type", "application/json;charset=utf-8"), body)

\* new Response("text", {status}): a string body gets text/plain
ResponseText(status, text) ==
    Response(status, HSet(EmptyHeaders, "Content-Type", "text/plain;charset=utf-8"),
             [kind |-> "text", text |-> text])

\* a guard's "continue" (null)
NoResponse == Response(0, EmptyHeaders, [kind |-> "none"])

JsonError(msg) == [kind |-> "json", error |-> msg]

-----------------------------------------------------------------------------
(* Paths.  The code tests paths with startsWith, === and two regular       *)
(* expressions; each test is tabulated over the paths the model sends.     *)

Paths == {"/", "/app.js", "/dashboard",
          "/api/health", "/api/unknown", "/apix",
          "/api/users", "/api/users/1", "/api/users/2",
          "/api/auth/login", "/api/auth/login/", "/api/auth/register",
          "/api/auth/logout"}

\* path.startsWith("/api")
StartsWithApi(path) == path \notin {"/", "/app.js", "/dashboard"}
\* url.pathname.startsWith("/api/")
StartsWithApiSlash(path) == StartsWithApi(path) /\ path # "/apix"
\* path.startsWith("/api/users")
StartsWithApiUsers(path) == path \in {"/api/users", "/api/users/1", "/api/users/2"}
\* path.startsWith("/api/admin")
StartsWithApiAdmin(path) == FALSE
\* path.startsWith("/api/auth")
StartsWithApiAuth(path) ==
    path \in {"/api/auth/login", "/api/auth/login/", "/api/auth/register",
              "/api/auth/logout"}
\* path.match(/^\/api\/users\/(.+)$/)?.[1]: the id, 0 when there is no match
UsersIdMatch(path) ==
    IF path = "/api/users/1" THEN 1 ELSE IF path = "/api/users/2" THEN 2 ELSE 0
\* url.pathname.match(/\.(js|css|png|...)$/)
StaticAssetMatch(path) == path = "/app.js"

-----------------------------------------------------------------------------
(* server/middleware/csrf.ts.  randomBytes(32) values are numbered in the  *)
(* order drawn: 0 stands for an absent cookie or header.                   *)

EmptyStore == [c \in {} |-> [token |-> 0, expires |-> 0]]

\* cleanupExpiredTokens that also drops the entries expiring at this instant
cleanupExpiredTokens_AtExpiry(store, t) ==
    [c \in {d \in DOMAIN store : ~(store[d].expires <= t)} |-> store[c]]

\* cleanupExpiredTokens() at Date.now() = t
cleanupExpiredTokens(store, t) ==
    [c \in {d \in DOMAIN store : ~(store[d].expires < t)} |-> store[c]]

\* generateCsrfToken that forgets every pair issued before
generateCsrfToken_Rotates(store, n, t) ==
    [token |-> n + 1, cookie |-> n + 1,
     store |-> [c \in {n + 1} |-> [token |-> n + 1, expires |-> t + CSRF_TTL_MS]]]

\* generateCsrfToken() with n pairs drawn before: the pair and the store
generateCsrfToken(store, n, t) ==
    LET token == n + 1
        cookie == n + 1
        stored == [c \in DOMAIN store \cup {cookie} |->
                      IF c = cookie
                      THEN [token |-> token, expires |-> t + CSRF_TTL_MS]
                      ELSE store[c]]
    IN  [token |-> token, cookie |-> cookie,
         store |-> cleanupExpiredTokens(stored, t)]

\* validateCsrfToken that lets a request without cookie or header pass
validateCsrfToken_AcceptsMissing(store, cookie, token, t) ==
    IF cookie = 0 \/ token = 0 THEN [ok |-> TRUE, store |-> store]
    ELSE IF cookie \notin DOMAIN store THEN [ok |-> FALSE, store |-> store]
    ELSE IF store[cookie].expires < t
    THEN [ok |-> FALSE,
          store |-> [c \in DOMAIN store \ {cookie} |-> store[c]]]
    ELSE [ok |-> store[cookie].token = token, store |-> store]

\* validateCsrfToken that does not compare the header with the stored token
validateCsrfToken_AnyToken(store, cookie, token, t) ==
    IF cookie = 0 \/ token = 0 THEN [ok |-> FALSE, store |-> store]
    ELSE IF cookie \notin DOMAIN store THEN [ok |-> FALSE, store |-> store]
    ELSE IF store[cookie].expires < t
    THEN [ok |-> FALSE,
          store |-> [c \in DOMAIN store \ {cookie} |-> store[c]]]
    ELSE [ok |-> TRUE, store |-> store]

\* validateCsrfToken that honours only the pair stored last
validateCsrfToken_NewestOnly(store, cookie, token, t) ==
    IF cookie = 0 \/ token = 0 THEN [ok |-> FALSE, store |-> store]
    ELSE IF cookie \notin DOMAIN store THEN [ok |-> FALSE, store |-> store]
    ELSE IF \E c \in DOMAIN store : c > cookie THEN [ok |-> FALSE, store |-> store]
    ELSE IF store[cookie].expires < t
    THEN [ok |-> FALSE,
          store |-> [c \in DOMAIN store \ {cookie} |-> store[c]]]
    ELSE [ok |-> store[cookie].token = token, store |-> store]

\* validateCsrfToken(cookie, token): the verdict and the store it leaves
validateCsrfToken(store, cookie, token, t) ==
    IF cookie = 0 \/ token = 0 THEN [ok |-> FALSE, store |-> store]
    ELSE IF cookie \notin DOMAIN store THEN [ok |-> FALSE, store |-> store]
    ELSE IF store[cookie].expires < t
    THEN [ok |-> FALSE,
          store |-> [c \in DOMAIN store \ {cookie} |-> store[c]]]
    ELSE [ok |-> store[cookie].token = token, store |-> store]

\* clearCsrfToken that deletes nothing
clearCsrfToken_KeepsEntry(store, cookie) == store

\* clearCsrfToken(cookie)
clearCsrfToken(store, cookie) ==
    [c \in DOMAIN store \ {cookie} |-> store[c]]

\* requiresCsrfProtection that asks for a token on POST, PUT and DELETE only
requiresCsrfProtection_ListedMethods(method, path) ==
    IF method \notin {"POST", "PUT", "DELETE"} THEN FALSE
    ELSE IF path = "/api/auth/login" \/ path = "/api/auth/register" THEN FALSE
    ELSE IF path = "/api/health" THEN FALSE
    ELSE TRUE

\* requiresCsrfProtection(req)
requiresCsrfProtection(method, path) ==
    IF method \in {"GET", "HEAD", "OPTIONS"} THEN FALSE
    ELSE IF path = "/api/auth/login" \/ path = "/api/auth/register" THEN FALSE
    ELSE IF path = "/api/health" THEN FALSE
    ELSE TRUE

\* applyCsrfProtection(req): the 403 or NoResponse, and the store it leaves
applyCsrfProtection(store, req, t) ==
    IF ~requiresCsrfProtection(req.method, req.path)
    THEN [resp |-> NoResponse, store |-> store]
    ELSE LET v == validateCsrfToken(store, req.cookie, req.csrfHeader, t)
         IN  IF ~v.ok
             THEN [resp |-> ResponseJson(403, JsonError("CSRF token validation failed")),
                   store |-> v.store]
             ELSE [resp |-> NoResponse, store |-> v.store]

\* addCsrfTokenToResponse(response, token, cookie)
addCsrfTokenToResponse(response, cookie) ==
    [response EXCEPT
        !.headers = HSet(@, "Set-Cookie",
            "csrf-token=<cookie>; HttpOnly; SameSite=Strict; Path=/; Max-Age=86400"),
        !.csrfCookie = cookie]

-----------------------------------------------------------------------------
(* server/middleware/cors.ts *)

ALLOWED_ORIGINS(e) ==
    IF e = "production"
    THEN {"https://yourdomain.com"}
    ELSE {"http://localhost:3000", "http://localhost:3001", "http://127.0.0.1:3000"}

ALLOWED_METHODS == "GET, POST, PUT, DELETE, OPTIONS"
ALLOWED_HEADERS == "Content-Type, Authorization, X-CSRF-Token"

\* origin && (ALLOWED_ORIGINS.includes(origin) || NODE_ENV !== "production")
OriginAllowed(origin, e) ==
    /\ origin # NoValue
    /\ origin # ""
    /\ (origin \in ALLOWED_ORIGINS(e) \/ e # "production")

\* applyCorsHeaders that also forbids caching of what it decorates
applyCorsHeaders_NoStore(response, origin, e) ==
    LET h0 == HSet(response.headers, "Cache-Control", "no-store")
        h1 == IF OriginAllowed(origin, e)
              THEN HSet(HSet(h0, "Access-Control-Allow-Origin", origin),
                        "Access-Control-Allow-Credentials", "true")
              ELSE h0
    IN  [response EXCEPT !.headers = HSet(h1, "Vary", "Origin")]

\* applyCorsHeaders(response, origin)
applyCorsHeaders(response, origin, e) ==
    LET h0 == response.headers
        h1 == IF OriginAllowed(origin, e)
              THEN HSet(HSet(h0, "Access-Control-Allow-Origin", origin),
                        "Access-Control-Allow-Credentials", "true")
              ELSE h0
    IN  [response EXCEPT !.headers = HSet(h1, "Vary", "Origin")]

\* handleCorsPreflightRequest that writes its headers for allowed origins only
handleCorsPreflightRequest_AllowedOnly(req, e) ==
    IF req.method # "OPTIONS" THEN NoResponse
    ELSE IF ~OriginAllowed(req.origin, e)
    THEN Response(204, HSet(EmptyHeaders, "Vary", "Origin"), [kind |-> "empty"])
    ELSE Response(204,
                  HSet(HSet(HSet(HSet(HSet(HSet(EmptyHeaders,
                       "Access-Control-Allow-Origin", req.origin),
                       "Access-Control-Allow-Credentials", "true"),
                       "Access-Control-Allow-Methods", ALLOWED_METHODS),
                       "Access-Control-Allow-Headers", ALLOWED_HEADERS),
                       "Access-Control-Max-Age", "86400"),
                       "Vary", "Origin"),
                  [kind |-> "empty"])

\* handleCorsPreflightRequest(req)
handleCorsPreflightRequest(req, e) ==
    IF req.method # "OPTIONS" THEN NoResponse
    ELSE LET h1 == IF OriginAllowed(req.origin, e)
                   THEN HSet(HSet(EmptyHeaders, "Access-Control-Allow-Origin", req.origin),
                             "Access-Control-Allow-Credentials", "true")
                   ELSE EmptyHeaders
             h2 == HSet(h1, "Access-Control-Allow-Methods", ALLOWED_METHODS)
             h3 == HSet(h2, "Access-Control-Allow-Headers", ALLOWED_HEADERS)
             h4 == HSet(h3, "Access-Control-Max-Age", "86400")
             h5 == HSet(h4, "Vary", "Origin")
         IN  Response(204, h5, [kind |-> "empty"])

-----------------------------------------------------------------------------
(* server/middleware/security-headers.ts *)

\* contentType.includes("text/html")
IsHtml(contentType) == contentType \in {"text/html", "text/html;charset=utf-8"}

CspFor(e) ==
    IF e # "production"
    THEN "default-src 'self'; script-src 'self' 'unsafe-inline' 'unsafe-eval'; style-src 'self' 'unsafe-inline'; img-src 'self' data: https:; font-src 'self'; connect-src 'self'; frame-ancestors 'none'; base-uri 'self'; form-action 'self'"
    ELSE "default-src 'self'; script-src 'self' ; style-src 'self' ; img-src 'self' data: https:; font-src 'self'; connect-src 'self'; frame-ancestors 'none'; base-uri 'self'; form-action 'self'"

\* applySecurityHeaders(response, req)
applySecurityHeaders(response, path, e) ==
    LET contentType == HGet(response.headers, "Content-Type")
        h1 == HSet(response.headers, "X-Content-Type-Options", "nosniff")
        h2 == HSet(h1, "X-Frame-Options", "DENY")
        h3 == HSet(h2, "X-XSS-Protection", "1; mode=block")
        h4 == HSet(h3, "Referrer-Policy", "strict-origin-when-cross-origin")
        h5 == HSet(h4, "Permissions-Policy", "geolocation=(), microphone=(), camera=()")
        h6 == HDelete(h5, "X-Powered-By")
        h7 == IF IsHtml(contentType)
              THEN HSet(h6, "Content-Security-Policy", CspFor(e))
              ELSE h6
        h8 == IF e = "production"
              THEN HSet(h7, "Strict-Transport-Security",
                        "max-age=31536000; includeSubDomains; preload")
              ELSE h7
        h9 == IF StartsWithApiSlash(path)
              THEN HSet(HSet(HSet(h8, "Cache-Control",
                        IF StartsWithApiUsers(path) \/ StartsWithApiAdmin(path)
                        THEN "no-store, no-cache, must-revalidate, private"
                        ELSE "no-store, no-cache, must-revalidate"),
                        "Pragma", "no-cache"), "Expires", "0")
              ELSE IF StaticAssetMatch(path)
              THEN HSet(h8, "Cache-Control", "public, max-age=31536000, immutable")
              ELSE IF path = "/manifest.json"
              THEN HSet(h8, "Cache-Control", "public, max-age=3600")
              ELSE h8
    IN  [response EXCEPT !.headers = h9]

-----------------------------------------------------------------------------
(* server/middleware/rate-limit.ts *)

EmptyRateStore == [ip \in {} |-> [count |-> 0, resetTime |-> 0]]

\* forwarded ? forwarded.split(",")[0].trim() : "127.0.0.1"; the header is
\* kept as the sequence of its comma separated values, <<>> when absent
ClientIp(forwarded) ==
    IF forwarded = <<>> THEN "127.0.0.1" ELSE Head(forwarded)

RateLimitResponse(max, message, entry, t) ==
    LET retryAfter == CeilDiv(entry.resetTime - t, MS_PER_SEC)
        r == Response(429,
                 HSet(HSet(EmptyHeaders, "Content-Type", "application/json"),
                      "X-RateLimit-Remaining", "0"),
                 JsonError(message))
    IN  [r EXCEPT !.numHeaders =
            [n \in {"Retry-After", "X-RateLimit-Limit", "X-RateLimit-Reset"} |->
                IF n = "Retry-After" THEN retryAfter
                ELSE IF n = "X-RateLimit-Limit" THEN max
                ELSE entry.resetTime]]

\* createRateLimiter rejecting from the max-th request on (>= for >)
createRateLimiter_RejectsAtMax(windowMs, max, message, store, e, forwarded, t) ==
    IF e = "test" THEN [resp |-> NoResponse, store |-> store]
    ELSE
    LET ip == ClientIp(forwarded)
        resetTime == t + windowMs
    IN  IF ip \notin DOMAIN store \/ store[ip].resetTime < t
        THEN [resp |-> NoResponse,
              store |-> [i \in DOMAIN store \cup {ip} |->
                            IF i = ip THEN [count |-> 1, resetTime |-> resetTime]
                            ELSE store[i]]]
        ELSE LET entry == [store[ip] EXCEPT !.count = @ + 1]
                 stored == [store EXCEPT ![ip] = entry]
             IN  IF entry.count >= max
                 THEN [resp |-> RateLimitResponse(max, message, entry, t),
                       store |-> stored]
                 ELSE [resp |-> NoResponse, store |-> stored]

\* createRateLimiter starting a new window already at the reset time
\* (<= for <)
createRateLimiter_RollsAtReset(windowMs, max, message, store, e, forwarded, t) ==
    IF e = "test" THEN [resp |-> NoResponse, store |-> store]
    ELSE
    LET ip == ClientIp(forwarded)
        resetTime == t + windowMs
    IN  IF ip \notin DOMAIN store \/ store[ip].resetTime <= t
        THEN [resp |-> NoResponse,
              store |-> [i \in DOMAIN store \cup {ip} |->
                            IF i = ip THEN [count |-> 1, resetTime |-> resetTime]
                            ELSE store[i]]]
        ELSE LET entry == [store[ip] EXCEPT !.count = @ + 1]
                 stored == [store EXCEPT ![ip] = entry]
             IN  IF entry.count > max
                 THEN [resp |-> RateLimitResponse(max, message, entry, t),
                       store |-> stored]
                 ELSE [resp |-> NoResponse, store |-> stored]

\* the closure createRateLimiter({windowMs, max, message}) returns, called
\* at Date.now() = t: the 429 or NoResponse, and the store it leaves
createRateLimiter(windowMs, max, message, store, e, forwarded, t) ==
    IF e = "test" THEN [resp |-> NoResponse, store |-> store]
    ELSE
    LET ip == ClientIp(forwarded)
        resetTime == t + windowMs
    IN  IF ip \notin DOMAIN store \/ store[ip].resetTime < t
        THEN [resp |-> NoResponse,
              store |-> [i \in DOMAIN store \cup {ip} |->
                            IF i = ip THEN [count |-> 1, resetTime |-> resetTime]
                            ELSE store[i]]]
        ELSE LET entry == [store[ip] EXCEPT !.count = @ + 1]
                 stored == [store EXCEPT ![ip] = entry]
             IN  IF entry.count > max
                 THEN [resp |-> RateLimitResponse(max, message, entry, t),
                       store |-> stored]
                 ELSE [resp |-> NoResponse, store |-> stored]

authRateLimiter(store, e, forwarded, t) ==
    createRateLimiter(AUTH_WINDOW_MS, AUTH_MAX,
        "Too many authentication attempts, please try again later",
        store, e, forwarded, t)

strictAuthRateLimiter(store, e, forwarded, t) ==
    createRateLimiter(STRICT_WINDOW_MS, STRICT_MAX,
        "Too many failed login attempts, please try again later",
        store, e, forwarded, t)

\* a sweep that also drops the entries whose window ends at this instant
sweepRateLimitStore_AtReset(store, t) ==
    [ip \in {i \in DOMAIN store : ~(store[i].resetTime <= t)} |-> store[ip]]

\* the setInterval callback: drop every entry whose window has passed
sweepRateLimitStore(store, t) ==
    [ip \in {i \in DOMAIN store : ~(store[i].resetTime < t)} |-> store[ip]]

-----------------------------------------------------------------------------
(* server/middleware/auth.ts *)

\* An Authorization header: absent, of another scheme, or "Bearer <token>"
NoAuth == [scheme |-> "none", token |-> <<>>]
BasicAuth == [scheme |-> "Basic", token |-> <<>>]
Bearer(token) == [scheme |-> "Bearer", token |-> token]

\* JS truthiness of a claim value
JsTruthy(v) ==
    \/ v.t = "string" /\ ("id" \in DOMAIN v \/ v.v # "")
    \/ v.t = "number" /\ v.v # 0

\* the text of generated user id i, as a JS string
JsId(i) == [t |-> "string", id |-> i]

NoUser == [id |-> JsNull, role |-> JsNull]

\* requireAuth that refuses the token of a session whose logout was served
requireAuth_EndsAtLogout(auth, t) ==
    IF auth.scheme # "Bearer"
    THEN [resp |-> Response(401, HSet(EmptyHeaders, "Content-Type", "application/json"),
                            JsonError("Unauthorized")),
          user |-> NoUser]
    ELSE LET payload == verifyToken(auth.token, t)
         IN  IF \/ payload = JsNull \/ "userId" \notin DOMAIN payload
                \/ ~JsTruthy(payload["userId"])
                \/ \E i \in DOMAIN issued :
                      issued[i].bearer = auth.token /\ issued[i].cookie \in revoked
             THEN [resp |-> Response(401,
                                HSet(EmptyHeaders, "Content-Type", "application/json"),
                                JsonError("Invalid token")),
                   user |-> NoUser]
             ELSE [resp |-> NoResponse,
                   user |-> [id |-> payload["userId"],
                             role |-> IF "role" \in DOMAIN payload
                                      THEN payload["role"] ELSE JsUndefined]]

\* requireAuth(req): the 401 or NoResponse, and req.user
requireAuth(auth, t) ==
    IF auth.scheme # "Bearer"
    THEN [resp |-> Response(401, HSet(EmptyHeaders, "Content-Type", "application/json"),
                            JsonError("Unauthorized")),
          user |-> NoUser]
    ELSE LET payload == verifyToken(auth.token, t)
         IN  IF payload = JsNull \/ "userId" \notin DOMAIN payload
                \/ ~JsTruthy(payload["userId"])
             THEN [resp |-> Response(401,
                                HSet(EmptyHeaders, "Content-Type", "application/json"),
                                JsonError("Invalid token")),
                   user |-> NoUser]
             ELSE [resp |-> NoResponse,
                   user |-> [id |-> payload["userId"],
                             role |-> IF "role" \in DOMAIN payload
                                      THEN payload["role"] ELSE JsUndefined]]

\* requireAdmin(req)
requireAdmin(auth, t) ==
    LET authResponse == requireAuth(auth, t)
    IN  IF authResponse.resp # NoResponse THEN authResponse
        ELSE IF authResponse.user.role # JsString("admin")
        THEN [resp |-> Response(403,
                           HSet(EmptyHeaders, "Content-Type", "application/json"),
                           JsonError("Forbidden - Admin access required")),
              user |-> authResponse.user]
        ELSE authResponse

-----------------------------------------------------------------------------
(* The users table (db/schema.ts) behind userRepository                    *)
(* (db/repositories/SQLiteUserRepository.ts).  A row is kept under its id; *)
(* ids are numbered in the order generated.                                *)

NoPassword == [hash |-> ""]
\* Bun.password.hash(password) / Bun.password.verify(password, hash)
hashPassword(password) == [hash |-> password]
verifyPassword(password, hashed) == hashed # NoPassword /\ hashed.hash = password

\* users.find that finds nobody
FindByEmail_FindsNone(users, email) == 0

\* users.find((u) => u.email === email): the id, 0 when there is none
FindByEmail(users, email) ==
    IF \E i \in DOMAIN users : users[i].email = email
    THEN CHOOSE i \in DOMAIN users : users[i].email = email
    ELSE 0

\* create(data): the insert violates email's UNIQUE constraint and throws
\* when another row holds the email
repoCreateThrows(users, data) == FindByEmail(users, data.email) # 0
repoCreate(users, n, data) ==
    [i \in DOMAIN users \cup {n + 1} |->
        IF i = n + 1
        THEN [email |-> data.email, name |-> data.name,
              password |-> data.password,
              role |-> IF data.role = NoValue THEN "user" ELSE data.role]
        ELSE users[i]]

\* update(id, data): only the members present in data are set
repoUpdateThrows(users, id, data) ==
    /\ id \in DOMAIN users
    /\ data.email # NoValue
    /\ \E i \in DOMAIN users \ {id} : users[i].email = data.email
repoUpdate(users, id, data) ==
    IF id \notin DOMAIN users THEN users
    ELSE [users EXCEPT ![id] =
            [email |-> IF data.email = NoValue THEN @.email ELSE data.email,
             name |-> IF data.name = NoValue THEN @.name ELSE data.name,
             password |-> IF data.password = NoPassword THEN @.password
                          ELSE data.password,
             role |-> IF data.role = NoValue THEN @.role ELSE data.role]]

\* delete(id)
repoDelete(users, id) == [i \in DOMAIN users \ {id} |-> users[i]]

-----------------------------------------------------------------------------
(* server/middleware/validation.ts and the zod schemas of the routes.      *)
(* A request body is "none", "not-json", "bad-fields" (JSON that fails     *)
(* every schema) or "ok" with the members it carries (NoValue: absent).    *)

NoBody == [kind |-> "none", name |-> NoValue, email |-> NoValue,
           password |-> NoValue, role |-> NoValue]

SchemaFields(schema) ==
    IF schema = "updateUserSchema" THEN {"name", "email", "password", "role"}
    ELSE {"name", "email", "password"} \ (IF schema = "loginSchema" THEN {"name"} ELSE {})
SchemaRequired(schema) ==
    IF schema = "loginSchema" THEN {"email", "password"}
    ELSE IF schema = "registerSchema" THEN {"name", "email", "password"}
    ELSE IF schema = "createUserSchema" THEN {"name", "email"}
    ELSE {}

\* validateRequest that keeps the members the schema does not name
validateRequest_Passthrough(body, schema) ==
    IF body.kind \in {"none", "not-json"}
    THEN [resp |-> ResponseText(400, "Invalid request"), data |-> NoBody]
    ELSE IF body.kind = "bad-fields" \/ \E f \in SchemaRequired(schema) : body[f] = NoValue
    THEN [resp |-> ResponseJson(400, [kind |-> "json", errors |-> "ZodError"]),
          data |-> NoBody]
    ELSE [resp |-> NoResponse, data |-> body]

\* validateRequest(req, schema): the 400 or NoResponse, and the parsed
\* body, in which members the schema does not name are stripped
validateRequest(body, schema) ==
    IF body.kind \in {"none", "not-json"}
    THEN [resp |-> ResponseText(400, "Invalid request"), data |-> NoBody]
    ELSE IF body.kind = "bad-fields" \/ \E f \in SchemaRequired(schema) : body[f] = NoValue
    THEN [resp |-> ResponseJson(400, [kind |-> "json", errors |-> "ZodError"]),
          data |-> NoBody]
    ELSE [resp |-> NoResponse,
          data |-> [f \in DOMAIN body |->
                      IF f = "kind" \/ f \in SchemaFields(schema) THEN body[f]
                      ELSE NoValue]]

-----------------------------------------------------------------------------
(* Route handlers.  w is the mutable state a handler reaches: the CSRF     *)
(* store, the rate-limit store and the users table.  A handler yields the  *)
(* response (or that it threw), the state it leaves and the steps it ran.  *)

Outcome(resp, w, ran) == [resp |-> resp, threw |-> FALSE, w |-> w, ran |-> ran]
Throws(w, ran) == [resp |-> NoResponse, threw |-> TRUE, w |-> w, ran |-> ran]

\* body.password = await Bun.password.hash(body.password) when provided
WithHashedPassword(data) ==
    [data EXCEPT !.password = IF @ = NoValue THEN NoPassword ELSE hashPassword(@)]

UserJson(users, id) == [kind |-> "json", user |-> id, role |-> users[id].role]

\* routes/users.ts: users.GET
usersGET(w, ran0) ==
    Outcome(ResponseJson(200, [kind |-> "json", list |-> DOMAIN w.users]), w,
            ran0 \o <<"users.GET", "userRepository.findAll">>)

\* routes/users.ts: users.POST
usersPOST(w, req, ran0) ==
    LET v == validateRequest(req.body, "createUserSchema")
        data == WithHashedPassword(v.data)
    IN  IF v.resp # NoResponse THEN Outcome(v.resp, w, ran0 \o <<"users.POST">>)
        ELSE IF repoCreateThrows(w.users, data)
        THEN Throws(w, ran0 \o <<"users.POST", "userRepository.create">>)
        ELSE LET users2 == repoCreate(w.users, w.nextUserId, data)
             IN  Outcome(ResponseJson(201, UserJson(users2, w.nextUserId + 1)),
                         [w EXCEPT !.users = users2, !.nextUserId = @ + 1],
                         ran0 \o <<"users.POST", "userRepository.create">>)

\* routes/users.ts: users["/:id"].GET
usersIdGET(w, id, ran0) ==
    IF id \notin DOMAIN w.users
    THEN Outcome(ResponseText(404, "User not found"), w,
                 ran0 \o <<"users./:id.GET", "userRepository.findById">>)
    ELSE Outcome(ResponseJson(200, UserJson(w.users, id)), w,
                 ran0 \o <<"users./:id.GET", "userRepository.findById">>)

\* routes/users.ts: users["/:id"].PUT
usersIdPUT(w, req, id, ran0) ==
    LET v == validateRequest(req.body, "updateUserSchema")
        data == WithHashedPassword(v.data)
    IN  IF v.resp # NoResponse THEN Outcome(v.resp, w, ran0 \o <<"users./:id.PUT">>)
        ELSE IF repoUpdateThrows(w.users, id, data)
        THEN Throws(w, ran0 \o <<"users./:id.PUT", "userRepository.update">>)
        ELSE IF id \notin DOMAIN w.users
        THEN Outcome(ResponseText(404, "User not found"), w,
                     ran0 \o <<"users./:id.PUT", "userRepository.update">>)
        ELSE LET users2 == repoUpdate(w.users, id, data)
             IN  Outcome(ResponseJson(200, UserJson(users2, id)),
                         [w EXCEPT !.users = users2],
                         ran0 \o <<"users./:id.PUT", "userRepository.update">>)

\* routes/users.ts: users["/:id"].DELETE
usersIdDELETE(w, id, ran0) ==
    IF id \notin DOMAIN w.users
    THEN Outcome(ResponseText(404, "User not found"), w,
                 ran0 \o <<"users./:id.DELETE", "userRepository.delete">>)
    ELSE Outcome(Response(204, EmptyHeaders, [kind |-> "empty"]),
                 [w EXCEPT !.users = repoDelete(w.users, id)],
                 ran0 \o <<"users./:id.DELETE", "userRepository.delete">>)

\* the claims login and register sign: { userId, email, name, role }
UserClaims(users, id) ==
    [k \in {"userId", "email", "name", "role"} |->
        IF k = "userId" THEN JsId(id)
        ELSE IF k = "email" THEN JsString(users[id].email)
        ELSE IF k = "name" THEN JsString(users[id].name)
        ELSE JsString(IF users[id].role = "" THEN "user" ELSE users[id].role)]

\* the token, the csrf pair and the response a successful login or
\* registration of user id produces at Date.now() = t
IssueSession(w, id, status, t, ran) ==
    LET token == generateToken(UserClaims(w.users, id), t)
        csrf == generateCsrfToken(w.csrf, w.nextCsrf, t)
        response == ResponseJson(status,
                        [kind |-> "json", token |-> token, user |-> id,
                         role |-> IF w.users[id].role = "" THEN "user"
                                  ELSE w.users[id].role,
                         csrfToken |-> csrf.token])
    IN  Outcome(addCsrfTokenToResponse(response, csrf.cookie),
                [w EXCEPT !.csrf = csrf.store, !.nextCsrf = @ + 1],
                ran \o <<"generateToken", "generateCsrfToken">>)

\* auth["/login"].POST that draws the CSRF pair before it checks the password
authLoginPOST_PairBeforeCheck(w, req, t, e, ran0) ==
    LET rl == authRateLimiter(w.rate, e, req.forwarded, t)
        w1 == [w EXCEPT !.rate = rl.store]
        ran1 == ran0 \o <<"auth./login.POST", "authRateLimiter">>
        v == validateRequest(req.body, "loginSchema")
        id == FindByEmail(w.users, v.data.email)
        ran2 == ran1 \o <<"userRepository.findAll">>
        csrf == generateCsrfToken(w.csrf, w.nextCsrf, t)
        w2 == [w1 EXCEPT !.csrf = csrf.store, !.nextCsrf = @ + 1]
    IN  IF rl.resp # NoResponse THEN Outcome(rl.resp, w1, ran1)
        ELSE IF v.resp # NoResponse THEN Outcome(v.resp, w1, ran1)
        ELSE IF id = 0 \/ w.users[id].password = NoPassword
        THEN Outcome(ResponseJson(401, JsonError("Invalid credentials")), w2, ran2)
        ELSE IF ~verifyPassword(v.data.password, w.users[id].password)
        THEN Outcome(ResponseJson(401, JsonError("Invalid credentials")), w2, ran2)
        ELSE IssueSession(w1, id, 200, t, ran2)

\* routes/auth.ts: auth["/login"].POST
authLoginPOST(w, req, t, e, ran0) ==
    LET rl == authRateLimiter(w.rate, e, req.forwarded, t)
        w1 == [w EXCEPT !.rate = rl.store]
        ran1 == ran0 \o <<"auth./login.POST", "authRateLimiter">>
        v == validateRequest(req.body, "loginSchema")
        id == FindByEmail(w.users, v.data.email)
        ran2 == ran1 \o <<"userRepository.findAll">>
    IN  IF rl.resp # NoResponse THEN Outcome(rl.resp, w1, ran1)
        ELSE IF v.resp # NoResponse THEN Outcome(v.resp, w1, ran1)
        ELSE IF id = 0 \/ w.users[id].password = NoPassword
        THEN Outcome(ResponseJson(401, JsonError("Invalid credentials")), w1, ran2)
        ELSE IF ~verifyPassword(v.data.password, w.users[id].password)
        THEN Outcome(ResponseJson(401, JsonError("Invalid credentials")), w1, ran2)
        ELSE IssueSession(w1, id, 200, t, ran2)

\* routes/auth.ts: auth["/register"].POST
authRegisterPOST(w, req, t, e, ran0) ==
    LET rl == authRateLimiter(w.rate, e, req.forwarded, t)
        w1 == [w EXCEPT !.rate = rl.store]
        ran1 == ran0 \o <<"auth./register.POST", "authRateLimiter">>
        v == validateRequest(req.body, "registerSchema")
        ran2 == ran1 \o <<"userRepository.findAll">>
        data == [v.data EXCEPT !.password = hashPassword(@), !.role = "user"]
    IN  IF rl.resp # NoResponse THEN Outcome(rl.resp, w1, ran1)
        ELSE IF v.resp # NoResponse THEN Outcome(v.resp, w1, ran1)
        ELSE IF FindByEmail(w.users, v.data.email) # 0
        THEN Outcome(ResponseJson(400, JsonError("User with this email already exists")),
                     w1, ran2)
        ELSE LET w2 == [w1 EXCEPT !.users = repoCreate(w.users, w.nextUserId, data),
                                  !.nextUserId = @ + 1]
             IN  IssueSession(w2, w.nextUserId + 1, 201, t,
                              ran2 \o <<"userRepository.create">>)

\* routes/auth.ts: auth["/logout"].POST
authLogoutPOST(w, req, ran0) ==
    LET w1 == IF req.cookie # 0
              THEN [w EXCEPT !.csrf = clearCsrfToken(w.csrf, req.cookie)]
              ELSE w
        headers == HSet(EmptyHeaders, "Set-Cookie",
                        "csrf-token=; HttpOnly; SameSite=Strict; Path=/; Max-Age=0")
    IN  Outcome(Response(200, HSet(headers, "Content-Type", "text/plain;charset=utf-8"),
                         [kind |-> "json-text", message |-> "Logged out successfully"]),
                w1,
                ran0 \o <<"auth./logout.POST">>
                     \o (IF req.cookie # 0 THEN <<"clearCsrfToken">> ELSE <<>>))

-----------------------------------------------------------------------------
(* server/index.ts: the fetch handler of Bun.serve and its error boundary  *)

\* isDevelopment (DEV_MODE unset)
isDevelopment(e) == e # "production"

\* the Content-Type the static branch derives from the file's extension
ContentTypeFor(filePath) ==
    IF filePath = "/index.html" THEN "text/html"
    ELSE IF filePath = "/app.js" THEN "application/javascript"
    ELSE "text/plain"

\* new Response(body, { headers: { "Content-Type": contentType } })
FileResponse(contentType, what) ==
    Response(200, HSet(EmptyHeaders, "Content-Type", contentType),
             [kind |-> "file", file |-> what])

\* wrapResponse(response) of the request at hand
wrapResponse(response, req, e) ==
    LET r1 == IF StartsWithApi(req.path)
              THEN applyCorsHeaders(response, req.origin, e)
              ELSE response
        r2 == IF isDevelopment(e) /\ StartsWithApi(req.path)
              THEN [r1 EXCEPT !.headers = HSet(@, "X-Server-Start-Time", "serverStartTime")]
              ELSE r1
    IN  applySecurityHeaders(r2, req.path, e)

\* the static-file branch: the response it returns, NoResponse when it
\* falls through.  req.disk tells which files exist when the request runs:
\* index for index.html, file for ./public<path>.
serveStatic(req, e) ==
    IF ~(req.path = "/" \/ ~StartsWithApi(req.path)) THEN NoResponse
    ELSE IF isDevelopment(e)
    THEN IF req.path = "/" /\ req.disk.index
         THEN FileResponse("text/html", "index.html+hmr")
         ELSE IF req.disk.file
         THEN FileResponse(ContentTypeFor(req.path), req.path)
         ELSE NoResponse
    ELSE IF req.path = "/"
         THEN IF req.disk.index
              THEN FileResponse(ContentTypeFor("/index.html"), "/index.html")
              ELSE NoResponse
         ELSE IF req.disk.file
         THEN FileResponse(ContentTypeFor(req.path), req.path)
         ELSE NoResponse

\* GET/POST/... /api/health
healthResponse(e) ==
    ResponseJson(200, [kind |-> "json", status |-> "ok", environment |-> e])

\* the /api/users block: an outcome whose response is NoResponse when no
\* branch set one
usersRoutes(w, req, t, ran0) ==
    LET id == UsersIdMatch(req.path)
        adminCheck == requireAdmin(req.auth, t)
        guarded == ran0 \o <<"requireAdmin">>
    IN  IF req.method = "GET" /\ req.path = "/api/users"
        THEN IF adminCheck.resp # NoResponse
             THEN Outcome(adminCheck.resp, w, guarded)
             ELSE usersGET(w, guarded)
        ELSE IF req.method = "POST" /\ req.path = "/api/users"
        THEN usersPOST(w, req, ran0)
        ELSE IF id # 0 /\ req.method = "GET"
        THEN usersIdGET(w, id, ran0)
        ELSE IF id # 0 /\ req.method = "PUT"
        THEN IF adminCheck.resp # NoResponse
             THEN Outcome(adminCheck.resp, w, guarded)
             ELSE usersIdPUT(w, req, id, guarded)
        ELSE IF id # 0 /\ req.method = "DELETE"
        THEN IF adminCheck.resp # NoResponse
             THEN Outcome(adminCheck.resp, w, guarded)
             ELSE usersIdDELETE(w, id, guarded)
        ELSE Outcome(NoResponse, w, ran0)

\* the /api/auth block
authRoutes(w, req, t, e, ran0) ==
    IF req.path = "/api/auth/login" /\ req.method = "POST"
    THEN authLoginPOST(w, req, t, e, ran0)
    ELSE IF req.path = "/api/auth/register" /\ req.method = "POST"
    THEN authRegisterPOST(w, req, t, e, ran0)
    ELSE IF req.path = "/api/auth/logout" /\ req.method = "POST"
    THEN authLogoutPOST(w, req, ran0)
    ELSE Outcome(NoResponse, w, ran0)

\* the catch-all: index.html for client-side routing, else the 404
spaFallback(req, e) ==
    IF req.disk.index
    THEN FileResponse("text/html",
                      IF isDevelopment(e) THEN "index.html+hmr" ELSE "/index.html")
    ELSE Response(404, HSet(EmptyHeaders, "Content-Type", "text/plain;charset=utf-8"),
                  [kind |-> "text", text |-> "Not Found"])

\* fetch after the preflight and the CSRF check: static files, health,
\* the route blocks, the catch-all; u and a are what the /api/users and
\* the /api/auth block come to
Routed(w, req, e, ran0, static, u, a) ==
    IF static # NoResponse THEN Outcome(static, w, ran0 \o <<"static">>)
    ELSE IF req.path = "/api/health"
    THEN Outcome(healthResponse(e), w, ran0 \o <<"health">>)
    ELSE IF StartsWithApiUsers(req.path) /\ (u.threw \/ u.resp # NoResponse)
    THEN u
    ELSE IF StartsWithApiAuth(req.path) /\ (a.threw \/ a.resp # NoResponse)
    THEN a
    ELSE Outcome(spaFallback(req, e), w, ran0 \o <<"fallback">>)

dispatch(w, req, t, e, ran0) ==
    Routed(w, req, e, ran0, serveStatic(req, e), usersRoutes(w, req, t, ran0),
           authRoutes(w, req, t, e, ran0))

\* error(error): the response Bun sends when fetch rejects
errorBoundary == ResponseText(500, "Internal Server Error")

\* every return of fetch goes through wrapResponse; a rejection goes
\* through error() instead
Finish(o, req, e) ==
    IF o.threw THEN [o EXCEPT !.resp = errorBoundary]
    ELSE [o EXCEPT !.resp = wrapResponse(@, req, e)]

\* fetch that runs the admin guard of the /api/users block before the CSRF
\* check
fetch_GuardBeforeCsrf(w, req, t, e) ==
    LET api == StartsWithApi(req.path)
        preflightResponse == handleCorsPreflightRequest(req, e)
        adminCheck == requireAdmin(req.auth, t)
        csrf == applyCsrfProtection(w.csrf, req, t)
        w1 == [w EXCEPT !.csrf = csrf.store]
    IN  IF api /\ preflightResponse # NoResponse
        THEN Finish(Outcome(preflightResponse, w, <<"handleCorsPreflightRequest">>),
                    req, e)
        ELSE IF /\ StartsWithApiUsers(req.path)
                /\ req.method \in {"PUT", "DELETE"}
                /\ adminCheck.resp # NoResponse
        THEN Finish(Outcome(adminCheck.resp, w,
                            <<"handleCorsPreflightRequest", "requireAdmin">>),
                    req, e)
        ELSE IF api /\ csrf.resp # NoResponse
        THEN Finish(Outcome(csrf.resp, w1,
                            <<"handleCorsPreflightRequest", "applyCsrfProtection">>),
                    req, e)
        ELSE IF api
        THEN Finish(dispatch(w1, req, t, e,
                             <<"handleCorsPreflightRequest", "applyCsrfProtection">>),
                    req, e)
        ELSE Finish(dispatch(w, req, t, e, <<>>), req, e)

\* fetch(req) at Date.now() = t on state w: the response sent, the state
\* left, the steps run
fetch(w, req, t, e) ==
    LET api == StartsWithApi(req.path)
        preflightResponse == handleCorsPreflightRequest(req, e)
        csrf == applyCsrfProtection(w.csrf, req, t)
        w1 == [w EXCEPT !.csrf = csrf.store]
    IN  IF api /\ preflightResponse # NoResponse
        THEN Finish(Outcome(preflightResponse, w, <<"handleCorsPreflightRequest">>),
                    req, e)
        ELSE IF api /\ csrf.resp # NoResponse
        THEN Finish(Outcome(csrf.resp, w1,
                            <<"handleCorsPreflightRequest", "applyCsrfProtection">>),
                    req, e)
        ELSE IF api
        THEN Finish(dispatch(w1, req, t, e,
                             <<"handleCorsPreflightRequest", "applyCsrfProtection">>),
                    req, e)
        ELSE Finish(dispatch(w, req, t, e, <<>>), req, e)

-----------------------------------------------------------------------------
(* Values the variables of a specification hold while another one runs *)

EmptyUsers == [i \in {} |-> [email |-> "", name |-> "", password |-> [hash |-> ""],
                             role |-> ""]]
NoExchange == [busy |-> FALSE]
NoEntry == [count |-> 0, resetTime |-> 0]
NoCheck == [called |-> FALSE, ip |-> "", at |-> 0, had |-> FALSE,
            before |-> NoEntry, after |-> NoEntry, resp |-> NoResponse]
EmptyWindows == [ip \in {} |-> [start |-> 0, seen |-> 0, passed |-> 0]]
NoClaims == [k \in {} |-> JsNull]

PipelineIdle ==
    /\ csrfTokenStore = EmptyStore
    /\ nextCsrf = 0
    /\ userTable = EmptyUsers
    /\ nextUserId = 0
    /\ exchange = NoExchange
    /\ issued = <<>>
    /\ revoked = {}

LimiterIdle ==
    /\ rateLimitStore = EmptyRateStore
    /\ inflight = 0
    /\ window = EmptyWindows
    /\ lastCheck = NoCheck

TokenIdle ==
    /\ tkClaims = NoClaims
    /\ tkToken = <<>>
    /\ tkResult = JsNull
    /\ tkAt = 0
    /\ tkPc = "idle"

-----------------------------------------------------------------------------
(* Spec: clients send requests to the server one after another; each is    *)
(* answered by fetch as a whole.  exchange holds the request being         *)
(* answered with its response until the client has received it.  issued    *)
(* lists what earlier logins and registrations handed out, revoked the     *)
(* cookies a successful logout has carried.  NODE_ENV is "test", as in the *)
(* repository's test suite, so authRateLimiter lets every request pass.    *)

\* the instants the clock visits: around the 24 hour lifetime of a CSRF
\* pair and of a bearer token issued at 0
MainInstants == {0, 86400000, 86401000}

AdminEmail == "alice@example.com"
OtherEmail == "dan@example.com"

\* the users table a deployment starts with: the admin that db/seed.ts
\* creates
SeededUsers ==
    [i \in {1} |-> [email |-> AdminEmail, name |-> "Alice Johnson",
                    password |-> hashPassword("password123"), role |-> "admin"]]

\* request bodies
NewUserBody == [kind |-> "ok", name |-> "Dan", email |-> OtherEmail,
                password |-> "password123", role |-> NoValue]
AdminBody == [kind |-> "ok", name |-> "Alice Johnson", email |-> AdminEmail,
              password |-> "password123", role |-> NoValue]
WrongPasswordBody == [kind |-> "ok", name |-> NoValue, email |-> AdminEmail,
                      password |-> "password-x", role |-> NoValue]
RoleBody == [kind |-> "ok", name |-> NoValue, email |-> NoValue,
             password |-> NoValue, role |-> "admin"]
Bodies == {NoBody, NewUserBody, AdminBody, WrongPasswordBody, RoleBody}

\* Origin headers: none, an allow-listed one, a foreign one, a literal "*"
Origins == {NoValue, "http://localhost:3000", "https://evil.example", "*"}

AllFiles == [index |-> TRUE, file |-> TRUE]
NoFiles == [index |-> FALSE, file |-> FALSE]

\* a token an attacker signs for the admin without knowing JWT_SECRET
ForgedAdminToken ==
    LET h == base64url(JSONstringify(JwtHeader))
        p == base64url(JSONstringify(TokenBody(UserClaims(SeededUsers, 1), 0)))
    IN  <<h, p, sha256(h, p, "guessed-secret")>>

\* the Authorization headers a client can send: none, or a token handed
\* out earlier; and also another scheme, a forged token, a held token with
\* ".x" appended or cut after its payload, and a token signed by the server
\* whose payload has no userId
HeldAuth == {NoAuth} \cup {Bearer(issued[i].bearer) : i \in DOMAIN issued}
AuthChoices ==
    HeldAuth \cup {BasicAuth, Bearer(ForgedAdminToken)}
             \cup {Bearer(Append(issued[i].bearer, JunkSegment)) : i \in DOMAIN issued}
             \cup {Bearer(SubSeq(issued[i].bearer, 1, 2)) : i \in DOMAIN issued}
             \cup {Bearer(generateToken([role |-> JsString("admin")], 0))}

\* csrf-token cookie and X-CSRF-Token header: 0 for absent, else the
\* number of a generated value (maybe one not generated so far).  A
\* mismatched pair has the larger number as the header.
CsrfPairs == {c \in (0..MaxIssue) \X (0..MaxIssue) : c[1] <= c[2] \/ c[2] = 0}

Request(method, path, origin, pair, auth, body, disk) ==
    [method |-> method, path |-> path, origin |-> origin,
     cookie |-> pair[1], csrfHeader |-> pair[2], auth |-> auth,
     forwarded |-> <<>>, body |-> body, disk |-> disk]

UsersPaths == {"/api/users", "/api/users/1", "/api/users/2"}
UserPaths == {"/api/users/1", "/api/users/2"}

\* the state fetch works on
World ==
    [csrf |-> csrfTokenStore, nextCsrf |-> nextCsrf, users |-> userTable,
     nextUserId |-> nextUserId, rate |-> rateLimitStore]

\* what the exchange of req leaves behind, o being the outcome of fetch
Commit(req, o) ==
    /\ o.w.nextCsrf <= MaxIssue
    /\ o.w.nextUserId <= MaxUserId
    /\ \A ip \in DOMAIN o.w.rate : o.w.rate[ip].count <= MaxCount
    /\ csrfTokenStore' = o.w.csrf
    /\ nextCsrf' = o.w.nextCsrf
    /\ userTable' = o.w.users
    /\ nextUserId' = o.w.nextUserId
    /\ rateLimitStore' = o.w.rate
    /\ exchange' = [busy |-> TRUE, req |-> req, resp |-> o.resp,
                    threw |-> o.threw, ran |-> o.ran, before |-> World,
                    revokedBefore |-> revoked, at |-> now]
    /\ issued' = IF o.resp.csrfCookie # 0
                 THEN Append(issued, [cookie |-> o.resp.csrfCookie,
                                      csrfToken |-> o.resp.body.csrfToken,
                                      bearer |-> o.resp.body.token,
                                      at |-> now])
                 ELSE issued
    /\ revoked' = IF /\ req.method = "POST"
                     /\ req.path = "/api/auth/logout"
                     /\ o.resp.status = 200
                     /\ req.cookie # 0
                  THEN revoked \cup {req.cookie}
                  ELSE revoked

\* the server answers req: all of fetch (or error() when it rejects)
Answer(req) ==
    /\ exchange = NoExchange
    /\ Commit(req, fetch(World, req, now, env))
    /\ UNCHANGED <<env, now, inflight, window, lastCheck>>
    /\ UNCHANGED tokenVars

\* requests to the /api/users routes; a GET carries no body
UsersRequest ==
    \/ \E p \in UsersPaths, a \in AuthChoices :
          Answer(Request("GET", p, NoValue, <<0, 0>>, a, NoBody, AllFiles))
    \/ \E c \in CsrfPairs, a \in HeldAuth :
          Answer(Request("DELETE", "/api/users/2", NoValue, c, a, NoBody, AllFiles))
    \/ \E c \in CsrfPairs, a \in HeldAuth,
          b \in {NoBody, NewUserBody, AdminBody, [NewUserBody EXCEPT !.role = "admin"]} :
          Answer(Request("POST", "/api/users", NoValue, c, a, b, AllFiles))
    \/ \E p \in UserPaths, c \in CsrfPairs, a \in HeldAuth,
          b \in {AdminBody, RoleBody} :
          Answer(Request("PUT", p, NoValue, c, a, b, AllFiles))

\* requests to the /api/auth routes
AuthRequest ==
    \/ \E p \in {"/api/auth/login", "/api/auth/register"},
          b \in {NoBody, NewUserBody, AdminBody, WrongPasswordBody,
                 [NewUserBody EXCEPT !.role = "admin"]} :
          Answer(Request("POST", p, NoValue, <<0, 0>>, NoAuth, b, AllFiles))
    \/ \E c \in CsrfPairs, a \in HeldAuth :
          Answer(Request("POST", "/api/auth/logout", NoValue, c, a, NoBody, AllFiles))

\* everything else: pages, assets, health, unrouted API paths, preflights
OtherRequest ==
    \/ \E p \in {"/", "/app.js", "/dashboard"}, d \in {AllFiles, NoFiles} :
          Answer(Request("GET", p, NoValue, <<0, 0>>, NoAuth, NoBody, d))
    \/ \E p \in {"/api/health", "/api/unknown", "/apix"}, o \in Origins,
          d \in {AllFiles, NoFiles} :
          Answer(Request("GET", p, o, <<0, 0>>, NoAuth, NoBody, d))
    \/ \E m \in {"POST", "DELETE"},
          p \in {"/api/health", "/api/unknown", "/api/auth/login/", "/dashboard"},
          c \in {<<0, 0>>, <<1, 0>>, <<1, 1>>}, d \in {AllFiles, NoFiles} :
          Answer(Request(m, p, NoValue, c, NoAuth, NoBody, d))
    \/ \E p \in {"/api/users", "/api/auth/login", "/dashboard"},
          o \in Origins :
          Answer(Request("OPTIONS", p, o, <<0, 0>>, NoAuth, NoBody, AllFiles))

Fetch == UsersRequest \/ AuthRequest \/ OtherRequest

\* the client has the response; the next request can be sent
Return ==
    /\ exchange # NoExchange
    /\ exchange' = NoExchange
    /\ UNCHANGED <<env, now, csrfTokenStore, nextCsrf, userTable, nextUserId,
                   rateLimitStore, issued, revoked, inflight, window, lastCheck>>
    /\ UNCHANGED tokenVars

\* time passes between requests
Tick ==
    /\ exchange = NoExchange
    /\ \E t \in MainInstants : t > now /\ now' = t
    /\ UNCHANGED <<env, csrfTokenStore, nextCsrf, userTable, nextUserId,
                   rateLimitStore, exchange, issued, revoked, inflight, window,
                   lastCheck>>
    /\ UNCHANGED tokenVars

Init ==
    /\ env = "test"
    /\ now = 0
    /\ csrfTokenStore = EmptyStore
    /\ nextCsrf = 0
    /\ userTable = SeededUsers
    /\ nextUserId = 1
    /\ rateLimitStore = EmptyRateStore
    /\ exchange = NoExchange
    /\ issued = <<>>
    /\ revoked = {}
    /\ inflight = 0
    /\ window = EmptyWindows
    /\ lastCheck = NoCheck
    /\ TokenIdle

Next == Fetch \/ Return \/ Tick

Spec == Init /\ [][Next]_vars

\* the same server on a users table without an admin: the seeded user holds
\* role user
InitNoAdmin ==
    /\ env = "test"
    /\ now = 0
    /\ csrfTokenStore = EmptyStore
    /\ nextCsrf = 0
    /\ userTable = [SeededUsers EXCEPT ![1].role = "user"]
    /\ nextUserId = 1
    /\ rateLimitStore = EmptyRateStore
    /\ exchange = NoExchange
    /\ issued = <<>>
    /\ revoked = {}
    /\ inflight = 0
    /\ window = EmptyWindows
    /\ lastCheck = NoCheck
    /\ TokenIdle

SpecNoAdmin == InitNoAdmin /\ [][Next]_vars

-----------------------------------------------------------------------------
(* SpecLimiter: login and registration attempts from several clients go    *)
(* through authRateLimiter while earlier ones are suspended at an await.   *)
(* POST /api/auth/login and /register are exempt from CSRF, so fetch runs  *)
(* from its entry to authRateLimiter(req) without an await in between:     *)
(* one action.                                                             *)

\* the instants the clock visits: around the end of a 15 minute window
LimiterInstants == {0, 899999, 900000, 900001, 1800001, 1800002}

\* X-Forwarded-For headers the clients send
ForwardedHeaders == {<<>>, <<"203.0.113.7", "10.0.0.1">>}

\* The window a request arriving at t from ip falls in, as the claim counts
\* it: a window opens with the first request that finds none open and
\* covers the arrivals up to its reset time, start + windowMs.
WindowAfter(w, ip, t, allowed) ==
    LET pass == IF allowed THEN 1 ELSE 0
    IN  IF ip \in DOMAIN w /\ t <= w[ip].start + AUTH_WINDOW_MS
        THEN [w EXCEPT ![ip] = [start |-> @.start, seen |-> @.seen + 1,
                                passed |-> @.passed + pass]]
        ELSE [i \in DOMAIN w \cup {ip} |->
                IF i = ip THEN [start |-> t, seen |-> 1, passed |-> pass]
                ELSE w[i]]

\* fetch(req) for POST /api/auth/login or /register, up to the limiter's
\* verdict: a 429 is returned at once, otherwise the handler suspends at
\* await validateRequest(...)
AuthRequestArrives(forwarded) ==
    LET ip == ClientIp(forwarded)
        had == ip \in DOMAIN rateLimitStore
        r == authRateLimiter(rateLimitStore, env, forwarded, now)
        allowed == r.resp = NoResponse
    IN  /\ had => rateLimitStore[ip].count < MaxCount
        /\ allowed => inflight < MaxInflight
        /\ rateLimitStore' = r.store
        /\ inflight' = IF allowed THEN inflight + 1 ELSE inflight
        /\ window' = WindowAfter(window, ip, now, allowed)
        /\ lastCheck' = [called |-> TRUE, ip |-> ip, at |-> now, had |-> had,
                         before |-> IF had THEN rateLimitStore[ip] ELSE NoEntry,
                         after |-> r.store[ip], resp |-> r.resp]
        /\ UNCHANGED <<env, now, pipelineVars, tokenVars>>

\* a suspended attempt (its body or credentials are bad) resumes and
\* answers 400 or 401; it reads and writes no shared store
AuthRequestCompletes ==
    /\ inflight > 0
    /\ inflight' = inflight - 1
    /\ UNCHANGED <<env, now, rateLimitStore, window, lastCheck, pipelineVars,
                   tokenVars>>

\* the setInterval(..., 60000) callback
Sweep ==
    /\ rateLimitStore' = sweepRateLimitStore(rateLimitStore, now)
    /\ rateLimitStore' # rateLimitStore
    /\ UNCHANGED <<env, now, inflight, window, lastCheck, pipelineVars, tokenVars>>

LimiterTick ==
    /\ \E t \in LimiterInstants : t > now /\ now' = t
    /\ UNCHANGED <<env, limiterVars, pipelineVars, tokenVars>>

InitLimiter ==
    /\ env \in {"development", "production"}
    /\ now = 0
    /\ PipelineIdle
    /\ LimiterIdle
    /\ TokenIdle

NextLimiter ==
    \/ \E f \in ForwardedHeaders : AuthRequestArrives(f)
    \/ AuthRequestCompletes
    \/ Sweep
    \/ LimiterTick

SpecLimiter == InitLimiter /\ [][NextLimiter]_vars

-----------------------------------------------------------------------------
(* SpecToken: generateToken and verifyToken applied to bounded inputs: a   *)
(* claims object is generated into a token, the token string is possibly   *)
(* altered, and it is verified at the same or a later instant.             *)

\* the instants the clock visits: around exp = iat + 24 h
TokenInstants == {0, 999, 1000, 86400999, 86401000, 86402000}

ClaimKeys == {"userId", "role"}
ClaimValues == {JsString("alice"), JsString(""), JsNull, JsNaN, JsUndefined}
ClaimObjects == UNION {[keys -> ClaimValues] : keys \in SUBSET ClaimKeys}

\* a guess at the signature by someone who does not hold JWT_SECRET
ForgedSignature(token) == sha256(token[1], token[2], "guessed-secret")

\* Token strings derived from a generated one: cut after a segment, with a
\* segment appended ("....x" or a trailing "."), with a segment emptied or
\* replaced
Alterations(token) ==
    {SubSeq(token, 1, 1), SubSeq(token, 1, 2),
     Append(token, JunkSegment), Append(token, EmptySegment),
     token \o <<JunkSegment, JunkSegment>>,
     [token EXCEPT ![3] = ForgedSignature(token)],
     [token EXCEPT ![2] = JunkSegment]}
    \cup {[token EXCEPT ![i] = EmptySegment] : i \in 1..3}

TkGenerate ==
    /\ tkPc = "claims"
    /\ tkToken' = generateToken(tkClaims, now)
    /\ tkAt' = now
    /\ tkPc' = "generated"
    /\ UNCHANGED <<env, now, tkClaims, tkResult, pipelineVars, limiterVars>>

TkAlter ==
    /\ tkPc = "generated"
    /\ tkToken' \in Alterations(tkToken)
    /\ tkPc' = "altered"
    /\ UNCHANGED <<env, now, tkClaims, tkResult, tkAt, pipelineVars, limiterVars>>

TkVerify ==
    /\ tkPc \in {"generated", "altered"}
    /\ tkResult' = verifyToken(tkToken, now)
    /\ tkPc' = "verified"
    /\ UNCHANGED <<env, now, tkClaims, tkToken, tkAt, pipelineVars, limiterVars>>

TkTick ==
    /\ tkPc # "verified"
    /\ \E t \in TokenInstants : t > now /\ now' = t
    /\ UNCHANGED <<env, tokenVars, pipelineVars, limiterVars>>

InitToken ==
    /\ env = "test"
    /\ now = 0
    /\ PipelineIdle
    /\ LimiterIdle
    /\ tkClaims \in ClaimObjects
    /\ tkToken = <<>>
    /\ tkResult = JsNull
    /\ tkAt = 0
    /\ tkPc = "claims"

NextToken == TkGenerate \/ TkAlter \/ TkVerify \/ TkTick

SpecToken == InitToken /\ [][NextToken]_vars

\* the token is the string generateToken returned
TkIntact == tkToken = generateToken(tkClaims, tkAt)

-----------------------------------------------------------------------------
(* SpecLimiters: both exported limiters are called for one client,        *)
(* between runs of the setInterval sweep.  Beside the module's one         *)
(* rateLimitStore, window keeps three stores for comparison: the store     *)
(* each limiter would have if it alone wrote it (auth, strict), and the    *)
(* store as it would be had the sweep never run (unswept).                 *)

\* limiter l is called for a request with the X-Forwarded-For header
\* forwarded
LimiterChecks(l, forwarded) ==
    LET ip == ClientIp(forwarded)
        had == ip \in DOMAIN rateLimitStore
        r == IF l = "auth" THEN authRateLimiter(rateLimitStore, env, forwarded, now)
             ELSE strictAuthRateLimiter(rateLimitStore, env, forwarded, now)
        alone == IF l = "auth" THEN authRateLimiter(window.auth, env, forwarded, now)
                 ELSE strictAuthRateLimiter(window.strict, env, forwarded, now)
        unswept == IF l = "auth"
                   THEN authRateLimiter(window.unswept, env, forwarded, now)
                   ELSE strictAuthRateLimiter(window.unswept, env, forwarded, now)
    IN  /\ had => rateLimitStore[ip].count < MaxCount
        /\ ip \in DOMAIN window.unswept => window.unswept[ip].count < MaxCount
        /\ rateLimitStore' = r.store
        /\ window' = [auth |-> IF l = "auth" THEN alone.store ELSE window.auth,
                      strict |-> IF l = "strict" THEN alone.store ELSE window.strict,
                      unswept |-> unswept.store]
        /\ lastCheck' = [called |-> TRUE, limiter |-> l, ip |-> ip, at |-> now,
                         had |-> had, unsweptHad |-> ip \in DOMAIN window.unswept,
                         before |-> IF had THEN rateLimitStore[ip] ELSE NoEntry,
                         after |-> r.store[ip], resp |-> r.resp,
                         alone |-> alone.resp, aloneAfter |-> alone.store[ip],
                         unswept |-> unswept.resp,
                         unsweptAfter |-> unswept.store[ip]]
        /\ UNCHANGED <<env, now, inflight, pipelineVars, tokenVars>>

InitLimiters ==
    /\ env \in {"development", "production"}
    /\ now = 0
    /\ PipelineIdle
    /\ rateLimitStore = EmptyRateStore
    /\ inflight = 0
    /\ window = [auth |-> EmptyRateStore, strict |-> EmptyRateStore,
                 unswept |-> EmptyRateStore]
    /\ lastCheck = NoCheck
    /\ TokenIdle

NextLimiters ==
    \/ \E l \in {"auth", "strict"} : LimiterChecks(l, <<"203.0.113.7", "10.0.0.1">>)
    \/ Sweep
    \/ LimiterTick

SpecLimiters == InitLimiters /\ [][NextLimiters]_vars

-----------------------------------------------------------------------------
(* SpecMiddleware: the middleware functions that depend on the request and *)
(* the response alone are applied to inputs drawn from bounded sets:       *)
(* requiresCsrfProtection to a method and a path; applyCorsHeaders and     *)
(* applySecurityHeaders, in both orders and twice, to a response.          *)
(* exchange holds the input and the results of one application.            *)

InitMiddleware ==
    /\ env \in {"development", "test", "production"}
    /\ now = 0
    /\ PipelineIdle
    /\ LimiterIdle
    /\ TokenIdle

NextMiddleware ==
    \/ /\ exchange = NoExchange
       /\ \E method \in {"GET", "HEAD", "OPTIONS", "POST", "PUT", "DELETE", "PATCH"},
              path \in Paths \cup {"/api/healthz", "/api/auth", "/api/auth/register/x"} :
              exchange' = [busy |-> TRUE, fn |-> "requiresCsrfProtection",
                           method |-> method, path |-> path,
                           result |-> requiresCsrfProtection(method, path)]
       /\ UNCHANGED <<env, now, csrfTokenStore, nextCsrf, userTable, nextUserId,
                      rateLimitStore, issued, revoked, limiterVars, tokenVars>>
    \/ /\ exchange = NoExchange
       /\ \E status \in {200, 404},
              contentType \in {NoValue, "text/html", "application/json"},
              preset \in SUBSET {"X-Powered-By", "Vary", "Access-Control-Allow-Origin",
                                 "Cache-Control"},
              path \in Paths, origin \in Origins \cup {"https://yourdomain.com"} :
              LET h0 == [n \in preset |-> "preset"]
                  h1 == IF contentType = NoValue THEN h0
                        ELSE HSet(h0, "Content-Type", contentType)
                  response == Response(status, h1, [kind |-> "empty"])
                  cors == applyCorsHeaders(response, origin, env)
                  security == applySecurityHeaders(response, path, env)
              IN  exchange' =
                      [busy |-> TRUE, fn |-> "decorate", response |-> response,
                       path |-> path, origin |-> origin,
                       cors |-> cors, security |-> security,
                       corsTwice |-> applyCorsHeaders(cors, origin, env),
                       securityTwice |-> applySecurityHeaders(security, path, env),
                       corsThenSecurity |-> applySecurityHeaders(cors, path, env),
                       securityThenCors |-> applyCorsHeaders(security, origin, env)]
       /\ UNCHANGED <<env, now, csrfTokenStore, nextCsrf, userTable, nextUserId,
                      rateLimitStore, issued, revoked, limiterVars, tokenVars>>
    \/ Return

SpecMiddleware == InitMiddleware /\ [][NextMiddleware]_vars

-----------------------------------------------------------------------------
(* SpecRegister: POST /api/auth/register requests are served concurrently. *)
(* The handler is suspended at its awaits, and another request may run in  *)
(* between: after userRepository.findAll() has been checked for the email, *)
(* after hashPassword, and userRepository.create with the session issue    *)
(* after that.  inflight holds, per request, the body, the await it stands *)
(* at and the response sent.                                               *)

InitRegister ==
    /\ env \in {"development", "test"}
    /\ now = 0
    /\ csrfTokenStore = EmptyStore
    /\ nextCsrf = 0
    /\ userTable = SeededUsers
    /\ nextUserId = 1
    /\ exchange = NoExchange
    /\ issued = <<>>
    /\ revoked = {}
    /\ rateLimitStore = EmptyRateStore
    /\ inflight = [r \in 1..MaxInflight |->
                      [pc |-> "idle", body |-> NoBody, resp |-> NoResponse]]
    /\ window = EmptyWindows
    /\ lastCheck = NoCheck
    /\ TokenIdle

NextRegister ==
    \* the request arrives: limiter, validateRequest, findAll and the check
    \/ \E r \in DOMAIN inflight,
          b \in {NoBody, NewUserBody, AdminBody, [NewUserBody EXCEPT !.name = "Eve"]} :
          LET rl == authRateLimiter(rateLimitStore, env, <<>>, now)
              v == validateRequest(b, "registerSchema")
          IN  /\ inflight[r].pc = "idle"
              /\ rateLimitStore' = rl.store
              /\ inflight' = [inflight EXCEPT ![r] =
                    IF rl.resp # NoResponse
                    THEN [pc |-> "done", body |-> b, resp |-> rl.resp]
                    ELSE IF v.resp # NoResponse
                    THEN [pc |-> "done", body |-> b, resp |-> v.resp]
                    ELSE IF FindByEmail(userTable, v.data.email) # 0
                    THEN [pc |-> "done", body |-> b,
                          resp |-> ResponseJson(400,
                                     JsonError("User with this email already exists"))]
                    ELSE [pc |-> "hashPassword", body |-> b, resp |-> NoResponse]]
              /\ UNCHANGED <<env, now, pipelineVars, window, lastCheck, tokenVars>>
    \* await hashPassword(body.password) resolves
    \/ \E r \in DOMAIN inflight :
          /\ inflight[r].pc = "hashPassword"
          /\ inflight' = [inflight EXCEPT ![r].pc = "create"]
          /\ UNCHANGED <<env, now, pipelineVars, rateLimitStore, window, lastCheck,
                         tokenVars>>
    \* userRepository.create, then the token, the CSRF pair and the 201; or
    \* the insert throws and error() answers
    \/ \E r \in DOMAIN inflight :
          LET v == validateRequest(inflight[r].body, "registerSchema")
              data == [v.data EXCEPT !.password = hashPassword(@), !.role = "user"]
              w2 == [World EXCEPT !.users = repoCreate(userTable, nextUserId, data),
                                  !.nextUserId = @ + 1]
              o == IssueSession(w2, nextUserId + 1, 201, now, <<>>)
          IN  /\ inflight[r].pc = "create"
              /\ IF repoCreateThrows(userTable, data)
                 THEN /\ inflight' = [inflight EXCEPT ![r].pc = "done",
                                                      ![r].resp = errorBoundary]
                      /\ UNCHANGED <<csrfTokenStore, nextCsrf, userTable, nextUserId,
                                     issued>>
                 ELSE /\ nextUserId < MaxUserId
                      /\ nextCsrf < MaxIssue
                      /\ inflight' = [inflight EXCEPT ![r].pc = "done",
                                                      ![r].resp = o.resp]
                      /\ csrfTokenStore' = o.w.csrf
                      /\ nextCsrf' = o.w.nextCsrf
                      /\ userTable' = o.w.users
                      /\ nextUserId' = o.w.nextUserId
                      /\ issued' = Append(issued,
                                          [cookie |-> o.resp.csrfCookie,
                                           csrfToken |-> o.resp.body.csrfToken,
                                           bearer |-> o.resp.body.token, at |-> now])
              /\ UNCHANGED <<env, now, exchange, revoked, rateLimitStore, window,
                             lastCheck, tokenVars>>

SpecRegister == InitRegister /\ [][NextRegister]_vars

-----------------------------------------------------------------------------
(* SpecPreflight: browsers send OPTIONS requests to API paths, in each     *)
(* NODE_ENV the server can be started in, between logins of the admin.     *)

\* OPTIONS with any headers a client may add; the Origin header is absent,
\* allowed outside production, allowed in production, foreign, or "*"
PreflightRequest ==
    \E p \in Paths, o \in Origins \cup {"https://yourdomain.com"}, c \in {<<0, 0>>, <<1, 1>>, <<1, 2>>},
       a \in HeldAuth \cup {Bearer(ForgedAdminToken)} :
        Answer(Request("OPTIONS", p, o, c, a, NoBody, AllFiles))

\* POST /api/auth/login of the seeded admin
PreflightLogin ==
    Answer(Request("POST", "/api/auth/login", NoValue, <<0, 0>>, NoAuth, AdminBody,
                   AllFiles))

\* requests a page of another origin makes after its preflight: the health
\* check, the creation of a user, a registration (with an email that may be
\* stored already, or without a body) and a login that fails
CrossOriginRequest ==
    \E o \in Origins \cup {"https://yourdomain.com"},
       r \in {<<"GET", "/api/health", 0, NoBody>>,
              <<"POST", "/api/users", 1, AdminBody>>,
              <<"POST", "/api/users", 1, NoBody>>,
              <<"POST", "/api/auth/register", 0, AdminBody>>,
              <<"POST", "/api/auth/register", 0, NewUserBody>>,
              <<"POST", "/api/auth/register", 0, NoBody>>,
              <<"POST", "/api/auth/login", 0, WrongPasswordBody>>,
              <<"POST", "/api/auth/login", 0, NoBody>>} :
        Answer(Request(r[1], r[2], o, <<r[3], r[3]>>, NoAuth, r[4], AllFiles))

InitPreflight ==
    /\ env \in {"development", "test", "production"}
    /\ now = 0
    /\ csrfTokenStore = EmptyStore
    /\ nextCsrf = 0
    /\ userTable = SeededUsers
    /\ nextUserId = 1
    /\ rateLimitStore = EmptyRateStore
    /\ exchange = NoExchange
    /\ issued = <<>>
    /\ revoked = {}
    /\ inflight = 0
    /\ window = EmptyWindows
    /\ lastCheck = NoCheck
    /\ TokenIdle

\* the page comes back after the CSRF pairs handed out have expired
NextPreflight ==
    \/ PreflightRequest
    \/ PreflightLogin
    \/ CrossOriginRequest
    \/ Return
    \/ Tick /\ now' > CSRF_TTL_MS

SpecPreflight == InitPreflight /\ [][NextPreflight]_vars

-----------------------------------------------------------------------------
(* Claims *)

Min(a, b) == IF a <= b THEN a ELSE b

\* the request of the exchange is one CSRF enforcement applies to: an API
\* path, a method and path requiresCsrfProtection does not exempt
ProtectedExchange ==
    /\ exchange.busy
    /\ StartsWithApi(exchange.req.path)
    /\ requiresCsrfProtection(exchange.req.method, exchange.req.path)

\* the steps of fetch that come before any auth guard, handler or repository
ChecksOnly(ran) ==
    \A i \in DOMAIN ran : ran[i] \in {"handleCorsPreflightRequest", "applyCsrfProtection"}

\* the state the exchange left is the state it found
LeftUntouched ==
    /\ userTable = exchange.before.users
    /\ nextUserId = exchange.before.nextUserId
    /\ nextCsrf = exchange.before.nextCsrf

\* C1: a POST, PUT or DELETE on an API path other than /api/auth/login,
\* /api/auth/register and /api/health that lacks the X-CSRF-Token header or
\* the csrf-token cookie is answered 403, and no auth guard, route handler
\* or repository operation runs for it.
C1_CsrfFailsClosed ==
    (/\ ProtectedExchange
     /\ exchange.req.method \in {"POST", "PUT", "DELETE"}
     /\ (exchange.req.cookie = 0 \/ exchange.req.csrfHeader = 0)) =>
        /\ exchange.resp.status = 403
        /\ ~exchange.threw
        /\ ChecksOnly(exchange.ran)
        /\ LeftUntouched

\* C1 happens: the admin, holding a valid bearer token and the token of an
\* issued pair but no cookie, asks to delete an existing user and gets 403
C1_Witness ==
    /\ exchange.busy
    /\ exchange.req.method = "DELETE"
    /\ exchange.req.path = "/api/users/2"
    /\ 2 \in DOMAIN userTable
    /\ exchange.req.cookie = 0
    /\ exchange.req.csrfHeader \in DOMAIN csrfTokenStore
    /\ requireAdmin(exchange.req.auth, exchange.at).resp = NoResponse
    /\ exchange.resp.status = 403

\* the request of the exchange presents a cookie together with the token
\* that was issued with it
PresentsFormerPair ==
    \E i \in DOMAIN issued :
        /\ issued[i].cookie = exchange.req.cookie
        /\ issued[i].csrfToken = exchange.req.csrfHeader

\* C2: once a POST /api/auth/logout carrying csrf-token cookie c has
\* returned 200, the CSRF store has no entry for c, and every later mutating
\* request on a protected API path that presents c with its former token is
\* answered 403.
C2_LogoutRevokes ==
    /\ \A c \in revoked : c \notin DOMAIN csrfTokenStore
    /\ (/\ ProtectedExchange
        /\ exchange.req.cookie \in exchange.revokedBefore
        /\ PresentsFormerPair) =>
           /\ exchange.resp.status = 403
           /\ ChecksOnly(exchange.ran)

\* C2 happens: a pair issued by a login is presented again, within its 24
\* hours, after the logout that carried its cookie, and is refused
C2_Witness ==
    /\ ProtectedExchange
    /\ exchange.req.cookie \in exchange.revokedBefore
    /\ \E i \in DOMAIN issued :
          /\ issued[i].cookie = exchange.req.cookie
          /\ issued[i].csrfToken = exchange.req.csrfHeader
          /\ exchange.at <= issued[i].at + CSRF_TTL_MS
    /\ exchange.req.method = "POST"
    /\ exchange.req.path = "/api/users"
    /\ exchange.resp.status = 403

\* the exchange is a request to one of the five /api/users routes
UsersRouteExchange ==
    /\ exchange.busy
    /\ \/ exchange.req.path = "/api/users" /\ exchange.req.method \in {"GET", "POST"}
       \/ /\ UsersIdMatch(exchange.req.path) # 0
          /\ exchange.req.method \in {"GET", "PUT", "DELETE"}

\* the steps of fetch that are a users handler or a repository operation
HandlerSteps ==
    {"users.GET", "users.POST", "users./:id.GET", "users./:id.PUT",
     "users./:id.DELETE", "userRepository.findAll", "userRepository.findById",
     "userRepository.create", "userRepository.update", "userRepository.delete"}

\* the request of the exchange carries what its route demands: a valid
\* bearer token for GET /api/users/:id, one with role admin for the others
CarriesRequiredToken ==
    IF UsersIdMatch(exchange.req.path) # 0 /\ exchange.req.method = "GET"
    THEN requireAuth(exchange.req.auth, exchange.at).resp = NoResponse
    ELSE requireAdmin(exchange.req.auth, exchange.at).resp = NoResponse

\* C3: a /api/users handler that lists or mutates users runs only for a
\* request carrying a valid bearer token whose role is admin, GET
\* /api/users/:id only for one carrying a valid bearer token; any other
\* request to these routes is answered 401 or 403 and touches no repository.
C3_UsersRoutesGuarded ==
    (UsersRouteExchange /\ ~CarriesRequiredToken) =>
        /\ exchange.resp.status \in {401, 403}
        /\ \A i \in DOMAIN exchange.ran : exchange.ran[i] \notin HandlerSteps
        /\ LeftUntouched

\* C4: whatever the request and the environment, no response carries
\* Access-Control-Allow-Origin "*" together with
\* Access-Control-Allow-Credentials true.
C4_NoWildcardWithCredentials ==
    exchange.busy =>
        ~(/\ HGet(exchange.resp.headers, "Access-Control-Allow-Origin") = "*"
          /\ HGet(exchange.resp.headers, "Access-Control-Allow-Credentials") = "true")

\* C5: with the limiter active (max 5, window 15 minutes), for every client
\* identifier and every window, whatever the interleaving of the requests in
\* flight, exactly the first 5 requests of the window pass and the 6th and
\* every later one is answered 429.
C5_FirstFivePass ==
    /\ \A ip \in DOMAIN window :
          window[ip].passed = Min(window[ip].seen, AUTH_MAX)
    /\ lastCheck.called =>
          /\ lastCheck.resp.status \in {0, 429}
          /\ lastCheck.resp.status = 429 <=> window[lastCheck.ip].seen > AUTH_MAX

\* C5 happens: a 7th request of one window is rejected while other attempts
\* are suspended and another client has its own window
C5_Witness ==
    /\ lastCheck.called
    /\ lastCheck.resp.status = 429
    /\ window[lastCheck.ip].seen >= AUTH_MAX + 2
    /\ window[lastCheck.ip].passed = AUTH_MAX
    /\ inflight >= 2
    /\ Cardinality(DOMAIN window) = 2

\* C6: a request that finds a stored window whose reset time has passed is
\* allowed whatever the stored count and replaces the entry by count 1,
\* resetTime now + windowMs; one that finds the window still open adds one
\* to the count and leaves the reset time alone.
C6_WindowRollover ==
    (lastCheck.called /\ lastCheck.had) =>
        IF lastCheck.before.resetTime < lastCheck.at
        THEN /\ lastCheck.resp = NoResponse
             /\ lastCheck.after = [count |-> 1,
                                   resetTime |-> lastCheck.at + AUTH_WINDOW_MS]
        ELSE /\ lastCheck.after.count = lastCheck.before.count + 1
             /\ lastCheck.after.resetTime = lastCheck.before.resetTime

\* C6 happens: an entry driven past the limit is replaced after its reset
\* time
C6_Witness ==
    /\ lastCheck.called
    /\ lastCheck.had
    /\ lastCheck.before.count > AUTH_MAX
    /\ lastCheck.before.resetTime < lastCheck.at
    /\ lastCheck.after.count = 1

\* C7: every 429 of the rate limiter carries a Retry-After of at least one
\* second, also for an arrival exactly at the window's reset time.
C7_RetryAfterPositive ==
    (lastCheck.called /\ lastCheck.resp.status = 429) =>
        lastCheck.resp.numHeaders["Retry-After"] >= 1

\* C8: every response the server sends, whatever its status and path, the
\* 500 of the error boundary included, carries X-Content-Type-Options:
\* nosniff and no X-Powered-By header.
C8_SecurityHeadersOnEveryResponse ==
    exchange.busy =>
        /\ HGet(exchange.resp.headers, "X-Content-Type-Options") = "nosniff"
        /\ "X-Powered-By" \notin DOMAIN exchange.resp.headers

\* C9: verifyToken returns null for every token string that does not split
\* into exactly three non-empty segments, four or more segments included.
C9_ExactlyThreeSegments ==
    (/\ tkPc = "verified"
     /\ \/ Len(tkToken) # 3
        \/ \E i \in 1..Len(tkToken) : tkToken[i] = EmptySegment)
    => tkResult = JsNull

\* the fields of a payload other than iat and exp
OtherFields(obj) == [k \in DOMAIN obj \ {"iat", "exp"} |-> obj[k]]

\* verification happens no later than the token's exp
TkBeforeExpiry == now \div MS_PER_SEC <= tkAt \div MS_PER_SEC + JWT_EXPIRY

\* C10 as stated: for every claims object, verifyToken(generateToken(claims))
\* before expiry returns the claims in its fields other than iat and exp.
C10_RoundTripAnyClaims ==
    (tkPc = "verified" /\ TkIntact /\ TkBeforeExpiry) =>
        /\ tkResult # JsNull
        /\ OtherFields(tkResult) = OtherFields(tkClaims)

\* every value of the object is one JSON writes and reads back unchanged
JsonClaims(obj) == \A k \in DOMAIN obj : obj[k] \notin {JsUndefined, JsNaN}

\* C10 amended: for every claims object whose values JSON represents (no
\* undefined, no NaN), the empty object included, verification before
\* expiry returns the claims in the fields other than iat and exp.
C10_RoundTripJsonClaims ==
    (tkPc = "verified" /\ TkIntact /\ TkBeforeExpiry /\ JsonClaims(tkClaims)) =>
        /\ tkResult # JsNull
        /\ OtherFields(tkResult) = OtherFields(tkClaims)

\* C10 happens: a token carrying two claims is verified at its last valid
\* instant
C10_Witness ==
    /\ tkPc = "verified"
    /\ TkIntact
    /\ JsonClaims(tkClaims)
    /\ DOMAIN tkClaims = ClaimKeys
    /\ now > tkAt
    /\ now \div MS_PER_SEC = tkAt \div MS_PER_SEC + JWT_EXPIRY
    /\ tkResult # JsNull

\* the whole second Date.now() = t lies in: Math.floor(t / 1000)
Seconds(t) == t \div MS_PER_SEC

\* C11: a token issued at time t carries exp = t + 24 hours, and verifyToken
\* accepts a correctly signed token exactly when it is evaluated at a time
\* not later than its exp, times being the whole seconds the code computes
\* with; a token issued with the clock at epoch 0 is rejected later on.
C11_ExpiryEnforced ==
    (tkPc = "verified" /\ TkIntact) =>
        /\ JSONparse(tkToken[2])["exp"] = JsNumber(Seconds(tkAt) + JWT_EXPIRY)
        /\ JSONparse(tkToken[2])["iat"] = JsNumber(Seconds(tkAt))
        /\ tkResult # JsNull <=> Seconds(now) <= Seconds(tkAt) + JWT_EXPIRY

\* C11 happens: a token generated with the clock at 0 is verified more than
\* 24 hours later and refused
C11_Witness ==
    /\ tkPc = "verified"
    /\ TkIntact
    /\ tkAt = 0
    /\ Seconds(now) > JWT_EXPIRY
    /\ tkResult = JsNull

\* the user a handed-out session belongs to: the userId claim of its bearer
SessionUser(session) == JSONparse(session.bearer[2])["userId"]

\* the request of the exchange got past CSRF enforcement: fetch went on to
\* static files, a route block or the catch-all
PassedCsrf ==
    /\ exchange.busy
    /\ Len(exchange.ran) > 2
    /\ exchange.ran[2] = "applyCsrfProtection"

\* the protected request of the exchange presents the pair of the first of
\* two sessions handed out to one user
PresentsFirstOfTwo ==
    /\ ProtectedExchange
    /\ Len(issued) = 2
    /\ SessionUser(issued[1]) = SessionUser(issued[2])
    /\ exchange.req.cookie = issued[1].cookie
    /\ exchange.req.csrfHeader = issued[1].csrfToken

PresentsLivePair(j) ==
    /\ exchange.req.cookie = issued[j].cookie
    /\ exchange.req.csrfHeader = issued[j].csrfToken
    /\ exchange.req.cookie \notin exchange.revokedBefore
    /\ exchange.at <= issued[j].at + CSRF_TTL_MS

\* C13: CSRF acceptance does not depend on the bearer identity: a mutating
\* request carrying the bearer token of one session and the valid, unexpired,
\* unrevoked pair of any session, that of a different user included, passes
\* CSRF enforcement just as with the pair of its own session.
C13_CsrfIgnoresBearer ==
    ProtectedExchange =>
        \A i, j \in DOMAIN issued :
            (exchange.req.auth = Bearer(issued[i].bearer) /\ PresentsLivePair(j))
                => PassedCsrf

\* C13 happens: the admin's bearer token travels with the pair issued to
\* another user, and the request gets through to the handler
C13_Witness ==
    /\ ProtectedExchange
    /\ \E i, j \in DOMAIN issued :
          /\ SessionUser(issued[i]) # SessionUser(issued[j])
          /\ exchange.req.auth = Bearer(issued[i].bearer)
          /\ PresentsLivePair(j)
          /\ SessionUser(issued[i]) = JsId(1)
    /\ exchange.req.method = "DELETE"
    /\ exchange.resp.status = 204

\* the request of the exchange pairs the cookie of one issued pair with the
\* token of another
PresentsMixedPair ==
    \E i, j \in DOMAIN issued :
        /\ i # j
        /\ exchange.req.cookie = issued[i].cookie
        /\ exchange.req.csrfHeader = issued[j].csrfToken

\* C14: a request on a protected path gets past CSRF validation only if its
\* cookie value is a key of the store as the request found it, the entry has
\* not expired at that instant and the stored token equals the header value;
\* the cookie of one issued pair with the token of another is answered 403.
C14_CsrfPassesOnlyOnStoredPair ==
    ProtectedExchange =>
        /\ PassedCsrf =>
              /\ exchange.req.cookie \in DOMAIN exchange.before.csrf
              /\ exchange.before.csrf[exchange.req.cookie].expires >= exchange.at
              /\ exchange.before.csrf[exchange.req.cookie].token = exchange.req.csrfHeader
        /\ PresentsMixedPair => (~PassedCsrf /\ exchange.resp.status = 403)

\* C14 happens: both pairs are in the store and unexpired, the request mixes
\* them and is refused
C14_Witness ==
    /\ ProtectedExchange
    /\ PresentsMixedPair
    /\ exchange.req.cookie \in DOMAIN exchange.before.csrf
    /\ exchange.req.csrfHeader \in DOMAIN exchange.before.csrf
    /\ exchange.before.csrf[exchange.req.cookie].expires >= exchange.at
    /\ exchange.resp.status = 403

PreflightExchange ==
    /\ exchange.busy
    /\ exchange.req.method = "OPTIONS"
    /\ StartsWithApi(exchange.req.path)

\* C16: an OPTIONS request to any path under /api is answered 204 with an
\* empty body and the headers Access-Control-Allow-Methods,
\* Access-Control-Allow-Headers (Content-Type, Authorization, X-CSRF-Token),
\* Access-Control-Max-Age and Vary: Origin, whether or not the origin is
\* allowed; only the preflight step runs, and the CSRF store, the rate-limit
\* store and the users table are left as they were.
C16_PreflightShape ==
    PreflightExchange =>
        /\ exchange.resp.status = 204
        /\ exchange.resp.body = [kind |-> "empty"]
        /\ HGet(exchange.resp.headers, "Access-Control-Allow-Methods")
              = "GET, POST, PUT, DELETE, OPTIONS"
        /\ HGet(exchange.resp.headers, "Access-Control-Allow-Headers")
              = "Content-Type, Authorization, X-CSRF-Token"
        /\ HGet(exchange.resp.headers, "Access-Control-Max-Age") = "86400"
        /\ HGet(exchange.resp.headers, "Vary") = "Origin"
        /\ exchange.ran = <<"handleCorsPreflightRequest">>
        /\ ~exchange.threw
        /\ World = exchange.before

\* C16 happens: in production a foreign origin sends a preflight with a
\* mismatched CSRF pair and a forged bearer token while a session exists; it
\* gets the 204 without Access-Control-Allow-Origin
C16_Witness ==
    /\ PreflightExchange
    /\ env = "production"
    /\ exchange.req.origin = "https://evil.example"
    /\ exchange.req.path = "/api/users/1"
    /\ exchange.req.cookie = 1 /\ exchange.req.csrfHeader = 2
    /\ exchange.req.auth = Bearer(ForgedAdminToken)
    /\ issued # <<>>
    /\ exchange.resp.status = 204
    /\ HGet(exchange.resp.headers, "Access-Control-Allow-Origin") = NoValue

\* where a step of fetch stands in the order of checks: the preflight test,
\* the CSRF check, the auth guard, then the handlers and all they call
CheckRank(step) ==
    IF step = "handleCorsPreflightRequest" THEN 1
    ELSE IF step = "applyCsrfProtection" THEN 2
    ELSE IF step = "requireAdmin" THEN 3
    ELSE 4

\* the request of the exchange carries a pair that the store it found holds,
\* unexpired
CarriesStoredPair ==
    /\ exchange.req.cookie \in DOMAIN exchange.before.csrf
    /\ exchange.before.csrf[exchange.req.cookie].expires >= exchange.at
    /\ exchange.before.csrf[exchange.req.cookie].token = exchange.req.csrfHeader

\* C17: on an API path the steps run in the order preflight test, CSRF check,
\* auth guard, handler; no guard or handler runs unless the CSRF check let
\* the request through, so a mutating request failing both the CSRF check
\* and the auth check is answered 403 by the CSRF check, never 401.
C17_CheckOrder ==
    (exchange.busy /\ StartsWithApi(exchange.req.path)) =>
        /\ exchange.ran[1] = "handleCorsPreflightRequest"
        /\ \A i, j \in DOMAIN exchange.ran :
              i < j => CheckRank(exchange.ran[i]) < CheckRank(exchange.ran[j])
                       \/ CheckRank(exchange.ran[j]) = 4
        /\ (\E i \in DOMAIN exchange.ran : CheckRank(exchange.ran[i]) >= 3) =>
              /\ exchange.ran[2] = "applyCsrfProtection"
              /\ ProtectedExchange => CarriesStoredPair
        /\ (/\ ProtectedExchange
            /\ ~CarriesStoredPair
            /\ requireAuth(exchange.req.auth, exchange.at).resp # NoResponse) =>
              /\ exchange.resp.status = 403
              /\ exchange.resp.body = JsonError("CSRF token validation failed")
              /\ ChecksOnly(exchange.ran)

\* C17 happens: a DELETE of a user with neither a stored CSRF pair nor a
\* bearer token gets the CSRF 403
C17_Witness ==
    /\ ProtectedExchange
    /\ exchange.req.method = "DELETE"
    /\ UsersIdMatch(exchange.req.path) # 0
    /\ ~CarriesStoredPair
    /\ exchange.req.auth = NoAuth
    /\ exchange.resp.status = 403

\* a POST /api/auth/logout has been answered
LogoutExchange ==
    /\ exchange.busy
    /\ exchange.req.method = "POST"
    /\ exchange.req.path = "/api/auth/logout"

\* C18: a POST /api/auth/logout whose Authorization header holds no valid
\* bearer token is rejected (401 or 403), deletes no entry of the CSRF store
\* and its response has no Set-Cookie header clearing the csrf-token cookie.
C18_LogoutRequiresBearer ==
    (LogoutExchange /\ requireAuth(exchange.req.auth, exchange.at).resp # NoResponse) =>
        /\ exchange.resp.status \in {401, 403}
        /\ csrfTokenStore = exchange.before.csrf
        /\ HGet(exchange.resp.headers, "Set-Cookie") = NoValue

\* requireAdmin ran in the exchange, on the bearer token issued as session i
GuardedWithSession(i) ==
    /\ exchange.busy
    /\ \E k \in DOMAIN exchange.ran : exchange.ran[k] = "requireAdmin"
    /\ exchange.req.auth = Bearer(issued[i].bearer)

\* C19: logout does not invalidate the bearer token: whatever logins,
\* logouts and changes of the users table came before, a token the server
\* issued passes the auth guard (no 401) while the time in seconds is not past
\* its exp, and is refused with 401 after; with role admin the request is
\* then served.
C19_BearerOutlivesLogout ==
    \A i \in DOMAIN issued :
        GuardedWithSession(i) =>
            /\ exchange.resp.status = 401
                  <=> Seconds(exchange.at) > Seconds(issued[i].at) + JWT_EXPIRY
            /\ (/\ Seconds(exchange.at) <= Seconds(issued[i].at) + JWT_EXPIRY
                /\ JSONparse(issued[i].bearer[2])["role"] = JsString("admin")
                /\ ~exchange.threw)
                  => exchange.resp.status \in {200, 204, 400, 404}

\* C19 happens: the CSRF cookie of the admin's session was carried by a
\* served logout, and the session's bearer token still lists the users
C19_Witness ==
    /\ \E i \in DOMAIN issued :
          /\ GuardedWithSession(i)
          /\ issued[i].cookie \in exchange.revokedBefore
    /\ exchange.req.method = "GET"
    /\ exchange.req.path = "/api/users"
    /\ exchange.resp.status = 200

\* C20: every response with status 400 or above for a path under /api has a
\* JSON body with an error field, never HTML or plain text: validation
\* failures, unparsable bodies, user-not-found, guard rejections and
\* uncaught handler errors included.
C20_ApiErrorsAreJson ==
    (/\ exchange.busy
     /\ StartsWithApiSlash(exchange.req.path)
     /\ exchange.resp.status >= 400) =>
        /\ exchange.resp.body.kind = "json"
        /\ "error" \in DOMAIN exchange.resp.body

\* C21: the limiters are independent instances: the decision of a limiter
\* for a client, and the count and window it stores, are those it would
\* have come to had only its own checks been made; the checks of
\* strictAuthRateLimiter change nothing for authRateLimiter and vice versa.
C21_LimitersIndependent ==
    lastCheck.called =>
        /\ lastCheck.resp = lastCheck.alone
        /\ lastCheck.after = lastCheck.aloneAfter

\* C22: an API response or preflight response carries
\* Access-Control-Allow-Origin exactly when, in production, the request's
\* Origin is on the allow-list and, outside production, the request has an
\* Origin; when set, its value is the request's Origin and
\* Access-Control-Allow-Credentials: true comes with it; when not set,
\* neither header is present.
C22_AllowOriginPolicy ==
    (exchange.busy /\ StartsWithApiSlash(exchange.req.path)) =>
        LET allowOrigin == HGet(exchange.resp.headers, "Access-Control-Allow-Origin")
            allowCredentials ==
                HGet(exchange.resp.headers, "Access-Control-Allow-Credentials")
        IN  /\ allowOrigin # NoValue <=>
                  IF env = "production"
                  THEN exchange.req.origin = "https://yourdomain.com"
                  ELSE exchange.req.origin # NoValue
            /\ allowOrigin # NoValue =>
                  (allowOrigin = exchange.req.origin /\ allowCredentials = "true")
            /\ allowOrigin = NoValue => allowCredentials = NoValue

\* the bearer token of the exchange is one the server issued, unaltered and
\* not expired; only such tokens are valid among those the clients send
CarriesValidToken ==
    \E i \in DOMAIN issued :
        /\ exchange.req.auth = Bearer(issued[i].bearer)
        /\ Seconds(exchange.at) <= Seconds(issued[i].at) + JWT_EXPIRY

CarriesAdminToken ==
    \E i \in DOMAIN issued :
        /\ exchange.req.auth = Bearer(issued[i].bearer)
        /\ Seconds(exchange.at) <= Seconds(issued[i].at) + JWT_EXPIRY
        /\ JSONparse(issued[i].bearer[2])["role"] = JsString("admin")

\* C23: on a route behind the admin guard, a request whose Authorization
\* header is missing or not Bearer, or whose token is malformed, wrongly
\* signed, expired or without userId, is answered 401; one with a valid
\* token whose role is not admin is answered 403 (an expired token of a
\* plain user still gets 401); the handler runs only for a valid admin
\* token.
C23_GuardVerdicts ==
    (exchange.busy /\ \E k \in DOMAIN exchange.ran : exchange.ran[k] = "requireAdmin") =>
        /\ ~CarriesValidToken => exchange.resp.status = 401
        /\ (CarriesValidToken /\ ~CarriesAdminToken) => exchange.resp.status = 403
        /\ (\E k \in DOMAIN exchange.ran : exchange.ran[k] \in HandlerSteps)
              => CarriesAdminToken

\* a POST /api/auth/register has been answered whose body passes
\* registerSchema and whose email is that of a user stored before
DuplicateRegistration ==
    /\ exchange.busy
    /\ exchange.req.method = "POST"
    /\ exchange.req.path = "/api/auth/register"
    /\ validateRequest(exchange.req.body, "registerSchema").resp = NoResponse
    /\ \E i \in DOMAIN exchange.before.users :
          exchange.before.users[i].email = exchange.req.body.email

C25_CsrfExemptions ==
    (exchange.busy /\ exchange.fn = "requiresCsrfProtection") =>
        (exchange.result = FALSE <=>
            \/ exchange.method = "GET"
            \/ exchange.method = "HEAD"
            \/ exchange.method = "OPTIONS"
            \/ exchange.path = "/api/auth/login"
            \/ exchange.path = "/api/auth/register"
            \/ exchange.path = "/api/health")

\* C25 happens: a PATCH on a path that extends an exempt one needs the token
C25_Witness ==
    /\ exchange.busy
    /\ exchange.fn = "requiresCsrfProtection"
    /\ exchange.method = "PATCH"
    /\ exchange.path = "/api/auth/login/"
    /\ exchange.result = TRUE

\* C26: applyCorsHeaders and applySecurityHeaders are each idempotent and
\* commute: for any response, path, origin and environment, one after the
\* other in either order, or either one applied twice, ends with the same
\* headers (and the same status and body).
C26_DecorationsCommute ==
    (exchange.busy /\ exchange.fn = "decorate") =>
        /\ exchange.corsTwice = exchange.cors
        /\ exchange.securityTwice = exchange.security
        /\ exchange.corsThenSecurity = exchange.securityThenCors

\* C26 happens: an HTML response for a static asset path that came with
\* headers both functions write is decorated for an allowed origin in
\* production
C26_Witness ==
    /\ exchange.busy
    /\ exchange.fn = "decorate"
    /\ env = "production"
    /\ exchange.origin = "https://yourdomain.com"
    /\ exchange.path = "/app.js"
    /\ DOMAIN exchange.response.headers =
          {"X-Powered-By", "Vary", "Access-Control-Allow-Origin", "Cache-Control",
           "Content-Type"}
    /\ HGet(exchange.corsThenSecurity.headers, "Access-Control-Allow-Origin")
          = "https://yourdomain.com"
    /\ HGet(exchange.corsThenSecurity.headers, "Cache-Control")
          = "public, max-age=31536000, immutable"
    /\ "X-Powered-By" \notin DOMAIN exchange.corsThenSecurity.headers

\* C27: on a server whose users table holds no admin and that has issued no
\* admin token, no sequence of registrations, logins, logouts and /api/users
\* requests stores a user with role admin or returns a bearer token with
\* role admin.
C27_NoSelfPromotion ==
    /\ \A i \in DOMAIN userTable : userTable[i].role # "admin"
    /\ \A i \in DOMAIN issued :
          JSONparse(issued[i].bearer[2])["role"] # JsString("admin")
    /\ (exchange.busy /\ "role" \in DOMAIN exchange.resp.body) =>
          exchange.resp.body.role # "admin"

\* C27 happens: POST /api/users with role admin in its body creates a plain
\* user
C27_Witness ==
    /\ exchange.busy
    /\ exchange.req.method = "POST"
    /\ exchange.req.path = "/api/users"
    /\ exchange.req.body.role = "admin"
    /\ exchange.resp.status = 201
    /\ exchange.resp.body.role = "user"
    /\ \E i \in DOMAIN userTable :
          userTable[i].email = exchange.req.body.email /\ userTable[i].role = "user"

\* C28: under any interleaving of concurrent registrations with the same
\* email, not registered before, exactly one creates the user and is
\* answered 201, every other one is answered 400 "User with this email
\* already exists", and none ends in an uncaught exception and a 500.
C28_OneRegistrationWins ==
    \A r \in DOMAIN inflight :
        (inflight[r].pc = "done" /\ inflight[r].body.email = OtherEmail) =>
            /\ inflight[r].resp.status \in {201, 400}
            /\ inflight[r].resp.status = 400 =>
                  inflight[r].resp.body = JsonError("User with this email already exists")
            /\ (\A q \in DOMAIN inflight :
                   inflight[q].pc = "done" /\ inflight[q].body.email = OtherEmail) =>
                  Cardinality({q \in DOMAIN inflight : inflight[q].resp.status = 201}) = 1
\* the exchange is a POST to /api/auth/login or /api/auth/register
LoginOrRegister ==
    /\ exchange.busy
    /\ exchange.req.method = "POST"
    /\ exchange.req.path \in {"/api/auth/login", "/api/auth/register"}

\* the cookies the CSRF store holds after the exchange and did not hold before
Gained == DOMAIN csrfTokenStore \ DOMAIN exchange.before.csrf

\* C29: the CSRF store gains an entry only in a login answered 200 or a
\* registration answered 201, and then exactly one, the one the csrf-token
\* cookie names; a login or registration answered 400, 401 or 429 leaves the
\* store as it was and sets no cookie; no request rewrites an entry that
\* stays, and a request that is not a login, registration or logout deletes
\* at most the entry its cookie names, and only when that entry is expired.
C29_CsrfStoreFrame ==
    exchange.busy =>
        /\ Gained # {} =>
              /\ LoginOrRegister
              /\ \/ exchange.req.path = "/api/auth/login" /\ exchange.resp.status = 200
                 \/ exchange.req.path = "/api/auth/register" /\ exchange.resp.status = 201
        /\ (LoginOrRegister /\ exchange.resp.status \in {200, 201}) =>
              /\ Gained = {exchange.resp.csrfCookie}
              /\ nextCsrf = exchange.before.nextCsrf + 1
              /\ csrfTokenStore[exchange.resp.csrfCookie].token
                    = exchange.resp.body.csrfToken
        /\ (LoginOrRegister /\ exchange.resp.status \in {400, 401, 429}) =>
              /\ csrfTokenStore = exchange.before.csrf
              /\ nextCsrf = exchange.before.nextCsrf
              /\ exchange.resp.csrfCookie = 0
              /\ HGet(exchange.resp.headers, "Set-Cookie") = NoValue
        /\ \A c \in DOMAIN exchange.before.csrf \cap DOMAIN csrfTokenStore :
              csrfTokenStore[c] = exchange.before.csrf[c]
        /\ (~LoginOrRegister /\ ~LogoutExchange) =>
              \A c \in DOMAIN exchange.before.csrf \ DOMAIN csrfTokenStore :
                  /\ c = exchange.req.cookie
                  /\ exchange.before.csrf[c].expires < exchange.at

\* C29 happens: with a session pair in the store, a login is answered 429
\* by the rate limiter
C29_Witness ==
    /\ LoginOrRegister
    /\ exchange.req.path = "/api/auth/login"
    /\ exchange.resp.status = 429
    /\ exchange.before.csrf # EmptyStore

\* C30: the sweep is unobservable.  window.unswept is the store of a limiter
\* that gets the same calls and is never swept: every call gets the same
\* answer (429 or pass, with the same Retry-After and X-RateLimit headers)
\* and leaves the same entry for the client as it would there, and the two
\* stores differ only in entries whose window has passed.
C30_SweepUnobservable ==
    /\ lastCheck.called =>
          /\ lastCheck.resp = lastCheck.unswept
          /\ lastCheck.after = lastCheck.unsweptAfter
    /\ \A ip \in DOMAIN rateLimitStore :
          ip \in DOMAIN window.unswept /\ window.unswept[ip] = rateLimitStore[ip]
    /\ \A ip \in DOMAIN window.unswept \ DOMAIN rateLimitStore :
          window.unswept[ip].resetTime < now

\* C30 happens: the sweep has deleted the client's entry, which the unswept
\* store still holds, and the client's next request opens a new window
C30_Witness ==
    /\ lastCheck.called
    /\ ~lastCheck.had
    /\ lastCheck.unsweptHad
    /\ lastCheck.resp = NoResponse
    /\ lastCheck.after = [count |-> 1, resetTime |-> lastCheck.at + AUTH_WINDOW_MS]

====
